---- MODULE Spec2Model ----
(***************************************************************************)
(* Settlement core of the duel-prediction backend: the ChessEscrow and     *)
(* PredictionMarket contracts (Solidity, mantleContracts) over one ERC20   *)
(* token, and the Move modules chess_escrow::escrow and                    *)
(* chess_escrow::prediction_market over AptosCoin.  Every external         *)
(* function is one action; a call that reverts (aborts) leaves the state   *)
(* unchanged and records the revert reason (abort code) in `last`.         *)
(* Amounts are uint256 with checked arithmetic (solc 0.8): every value the *)
(* contracts compute is bounded by the token supply, which is far below    *)
(* 2^256 here, so no overflow branch is reachable.                         *)
(***************************************************************************)
EXTENDS Integers, FiniteSets, Sequences, TLC

\* ------------------------------------------------------------------ bounds
\* MaxStake: the large stake offered to createEscrow (besides 0 and 1).
\* MaxCreates: escrows created in one behaviour (each may be reused after it
\* is resolved).  BettorBalance: tokens held by the largest bettor.
MaxStake == 11
MaxCreates == 2
BettorBalance == 2

\* ------------------------------------------------------- program constants
FEE_PERCENTAGE == 5
OUTCOME_PLAYER1 == 1
OUTCOME_PLAYER2 == 2
OUTCOME_DRAW == 3
STATUS_ACTIVE == 1
STATUS_RESOLVED == 2

\* ------------------------------------------------------------- identities
Zero == "0x0"
Addr == {"a1", "a2", "a3"}
EscrowContract == "ChessEscrow"
MarketContract == "PredictionMarket"
Holders == Addr \cup {EscrowContract, MarketContract}
MatchIds == {1, 2}
Stakes == {0, 1, MaxStake}
Outcomes == {OUTCOME_PLAYER1, OUTCOME_PLAYER2, OUTCOME_DRAW}
\* The callers of create in the behaviours explored (anyone may call it).
Creators == {"a1", "a3"}

VARIABLES escrows, markets, userShares, hasClaimed, balance, paid, created, last

\* State of the Move modules: the resources published under each account and
\* the accounts' AptosCoin balances.  chain tells which deployment a behaviour
\* is about ("evm": the Solidity contracts, "aptos": the Move modules).
VARIABLES chain, EscrowStore, MarketStore, OutcomeSharesStore, ClaimTrackingStore,
          coin

\* The call of a contract function whose token transfer is in flight: the
\* token has been called and has not returned yet (op "none": no such call).
VARIABLE inFlight

ledger == <<escrows, markets, userShares, hasClaimed, balance, paid, created>>
aptos == <<EscrowStore, MarketStore, OutcomeSharesStore, ClaimTrackingStore, coin>>
vars == <<escrows, markets, userShares, hasClaimed, balance, paid, created, last,
          chain, EscrowStore, MarketStore, OutcomeSharesStore, ClaimTrackingStore,
          coin, inFlight>>

\* ------------------------------------------------------------ ERC20 token
NoCall == [op |-> "none"]

\* transfer / transferFrom of the token: move amt from one holder to another.
Transfer(bal, from, to, amt) ==
    [[bal EXCEPT ![from] = @ - amt] EXCEPT ![to] = @ + amt]

\* A call that reverts: nothing but the recorded result changes.
Revert(op, err) ==
    /\ last' = [op |-> op, res |-> err]
    /\ UNCHANGED ledger
    /\ UNCHANGED <<chain, aptos, inFlight>>

Ok(op) ==
    /\ last' = [op |-> op, res |-> "ok"]
    /\ UNCHANGED <<chain, aptos, inFlight>>

\* The storage and balances at the start of a transaction, kept while its
\* transfer is in flight: a revert of the transaction restores them, the
\* writes of the calls made from inside the transfer included.
Snapshot ==
    [escrows |-> escrows, markets |-> markets, userShares |-> userShares,
     hasClaimed |-> hasClaimed, balance |-> balance, paid |-> paid,
     created |-> created]

RevertTo(saved, op, err) ==
    /\ escrows' = saved.escrows
    /\ markets' = saved.markets
    /\ userShares' = saved.userShares
    /\ hasClaimed' = saved.hasClaimed
    /\ balance' = saved.balance
    /\ paid' = saved.paid
    /\ created' = saved.created
    /\ last' = [op |-> op, res |-> err]
    /\ inFlight' = NoCall
    /\ UNCHANGED <<chain, aptos>>

\* ------------------------------------------------------------ ChessEscrow
EmptyEscrow ==
    [admin |-> Zero, player1 |-> Zero, player2 |-> Zero, amount |-> 0,
     total |-> 0, deposited1 |-> FALSE, deposited2 |-> FALSE]

escrowExists(matchId) == escrows[matchId].admin # Zero

\* Variant of NewEscrow that makes player1 the administrator.
NewEscrowPlayerAdmin(sender, player1, player2, amount) ==
    [admin |-> player1, player1 |-> player1, player2 |-> player2,
     amount |-> amount, total |-> 0, deposited1 |-> FALSE, deposited2 |-> FALSE]

\* Variant of NewEscrow whose record starts out funded.
NewEscrowFunded(sender, player1, player2, amount) ==
    [admin |-> sender, player1 |-> player1, player2 |-> player2,
     amount |-> amount, total |-> 2 * amount,
     deposited1 |-> TRUE, deposited2 |-> TRUE]

NewEscrow(sender, player1, player2, amount) ==
    [admin |-> sender, player1 |-> player1, player2 |-> player2,
     amount |-> amount, total |-> 0,
     deposited1 |-> FALSE, deposited2 |-> FALSE]

createEscrow(sender, matchId, player1, player2, amount) ==
    IF escrows[matchId].admin # Zero
    THEN Revert("createEscrow", "EscrowAlreadyExists")
    ELSE IF ~(player1 # Zero /\ player2 # Zero)
    THEN Revert("createEscrow", "Invalid players")
    ELSE IF ~(amount > 0)
    THEN Revert("createEscrow", "Invalid amount")
    ELSE /\ created < MaxCreates
         /\ escrows' = [escrows EXCEPT
                           ![matchId] = NewEscrow(sender, player1, player2, amount)]
         /\ created' = created + 1
         /\ Ok("createEscrow")
         /\ UNCHANGED <<markets, userShares, hasClaimed, balance, paid>>

\* Variant of Deposited that sets the flag without adding the stake to total.
DepositedFlagOnly(e, slot) ==
    IF slot = 1
    THEN [e EXCEPT !.deposited1 = TRUE]
    ELSE [e EXCEPT !.deposited2 = TRUE]

\* Variant of Deposited that adds the stake without setting the flag.
DepositedNoFlag(e, slot) == [e EXCEPT !.total = @ + e.amount]

\* Variant of Deposited that counts the stake twice in the total.
DepositedCountedTwice(e, slot) ==
    IF slot = 1
    THEN [e EXCEPT !.deposited1 = TRUE, !.total = @ + 2 * e.amount]
    ELSE [e EXCEPT !.deposited2 = TRUE, !.total = @ + 2 * e.amount]

\* The record after the player in the given slot has deposited.
Deposited(e, slot) ==
    IF slot = 1
    THEN [e EXCEPT !.deposited1 = TRUE, !.total = @ + e.amount]
    ELSE [e EXCEPT !.deposited2 = TRUE, !.total = @ + e.amount]

\* Variant of deposit in which a failed transfer reports the failure but the
\* slot flag and total written for it are kept.
depositKeepsFlag(sender, matchId, approved) ==
    LET escrow == escrows[matchId]
        slot == IF sender = escrow.player1 THEN 1
                ELSE IF sender = escrow.player2 THEN 2 ELSE 0
        done == IF slot = 1 THEN escrow.deposited1 ELSE escrow.deposited2
    IN  IF escrow.admin = Zero
        THEN Revert("deposit", "EscrowNotFound")
        ELSE IF slot = 0
        THEN Revert("deposit", "EscrowNotFound")
        ELSE IF done
        THEN Revert("deposit", "AlreadyDeposited")
        ELSE IF ~approved \/ balance[sender] < escrow.amount
        THEN /\ escrows' = [escrows EXCEPT ![matchId] = Deposited(escrow, slot)]
             /\ last' = [op |-> "deposit", res |-> "TransferFailed"]
             /\ UNCHANGED <<chain, aptos, inFlight>>
             /\ UNCHANGED <<markets, userShares, hasClaimed, balance, paid, created>>
        ELSE /\ balance' = Transfer(balance, sender, EscrowContract, escrow.amount)
             /\ escrows' = [escrows EXCEPT ![matchId] = Deposited(escrow, slot)]
             /\ Ok("deposit")
             /\ UNCHANGED <<markets, userShares, hasClaimed, paid, created>>

\* approved: whether the sender's allowance to the contract covers the stake
\* (the allowance is state of the token, set by the sender beforehand).
deposit(sender, matchId, approved) ==
    LET escrow == escrows[matchId]
        slot == IF sender = escrow.player1 THEN 1
                ELSE IF sender = escrow.player2 THEN 2 ELSE 0
        done == IF slot = 1 THEN escrow.deposited1 ELSE escrow.deposited2
    IN  IF escrow.admin = Zero
        THEN Revert("deposit", "EscrowNotFound")
        ELSE IF slot = 0
        THEN Revert("deposit", "EscrowNotFound")
        ELSE IF done
        THEN Revert("deposit", "AlreadyDeposited")
        ELSE IF ~approved \/ balance[sender] < escrow.amount
        THEN Revert("deposit", "TransferFailed")
        ELSE /\ balance' = Transfer(balance, sender, EscrowContract, escrow.amount)
             /\ escrows' = [escrows EXCEPT ![matchId] = Deposited(escrow, slot)]
             /\ Ok("deposit")
             /\ UNCHANGED <<markets, userShares, hasClaimed, paid, created>>

\* deposit up to its call of token.safeTransferFrom, for a token that calls
\* the sender back during the transfer (the token is whatever IERC20 the
\* constructor was given). The checks have run; deposited1 / deposited2 and
\* total are not written yet: the contract writes them after the transfer
\* returns. moved: whether the token has moved the funds before it calls back.
depositUntilTransfer(sender, matchId, moved) ==
    LET escrow == escrows[matchId]
        slot == IF sender = escrow.player1 THEN 1
                ELSE IF sender = escrow.player2 THEN 2 ELSE 0
        done == IF slot = 1 THEN escrow.deposited1 ELSE escrow.deposited2
    IN  IF escrow.admin = Zero
        THEN Revert("deposit", "EscrowNotFound")
        ELSE IF slot = 0
        THEN Revert("deposit", "EscrowNotFound")
        ELSE IF done
        THEN Revert("deposit", "AlreadyDeposited")
        ELSE IF moved /\ balance[sender] < escrow.amount
        THEN Revert("deposit", "TransferFailed")
        ELSE /\ balance' = IF moved
                           THEN Transfer(balance, sender, EscrowContract, escrow.amount)
                           ELSE balance
             /\ inFlight' = [op |-> "deposit", sender |-> sender,
                             matchId |-> matchId, slot |-> slot,
                             amount |-> escrow.amount, moved |-> moved,
                             saved |-> Snapshot]
             /\ last' = [op |-> "deposit", res |-> "transfer"]
             /\ UNCHANGED <<escrows, markets, userShares, hasClaimed, paid, created>>
             /\ UNCHANGED <<chain, aptos>>

\* The transfer of a deposit returns: the token moves the funds if it has not
\* yet (and the whole transaction reverts if the sender can no longer pay),
\* then deposit writes the slot flag and adds the stake to the total of the
\* escrow as it is in storage now.
depositAfterTransfer ==
    LET call == inFlight
        escrow == escrows[call.matchId]
    IN  /\ call.op = "deposit"
        /\ IF ~call.moved /\ balance[call.sender] < call.amount
           THEN RevertTo(call.saved, "deposit", "TransferFailed")
           ELSE /\ balance' = IF call.moved THEN balance
                              ELSE Transfer(balance, call.sender, EscrowContract,
                                            call.amount)
                /\ escrows' = [escrows EXCEPT ![call.matchId] =
                                   Deposited(escrow, call.slot)]
                /\ last' = [op |-> "deposit", res |-> "ok"]
                /\ inFlight' = NoCall
                /\ UNCHANGED <<markets, userShares, hasClaimed, paid, created>>
                /\ UNCHANGED <<chain, aptos>>

\* Variant of Fee that rounds the fee up.
FeeRoundedUp(total) == (total * FEE_PERCENTAGE + 99) \div 100

Fee(total) == (total * FEE_PERCENTAGE) \div 100

\* Variant of Split that rounds each half up.
SplitRoundedUp(remaining) == (remaining + 1) \div 2

Split(remaining) == remaining \div 2

\* Variant of isAdmin that lets every caller through.
isAdminAnyone(sender, record) == TRUE

isAdmin(sender, record) == sender = record.admin

resolveWin(sender, matchId, winner) ==
    LET escrow == escrows[matchId]
        total == escrow.total
        fee == Fee(total)
        payout == total - fee
        bal1 == Transfer(balance, EscrowContract, winner, payout)
        bal2 == IF fee > 0
                THEN Transfer(bal1, EscrowContract, escrow.admin, fee)
                ELSE bal1
    IN  IF escrow.admin = Zero
        THEN Revert("resolveWin", "EscrowNotFound")
        ELSE IF ~isAdmin(sender, escrow)
        THEN Revert("resolveWin", "NotAdmin")
        ELSE IF ~escrow.deposited1 \/ ~escrow.deposited2
        THEN Revert("resolveWin", "EscrowNotReady")
        ELSE IF balance[EscrowContract] < payout
                \/ (fee > 0 /\ bal1[EscrowContract] < fee)
        THEN Revert("resolveWin", "TransferFailed")
        ELSE /\ balance' = bal2
             /\ escrows' = [escrows EXCEPT ![matchId] = EmptyEscrow]
             /\ Ok("resolveWin")
             /\ UNCHANGED <<markets, userShares, hasClaimed, paid, created>>

\* Variant of resolveDraw without the check that both players have deposited.
resolveDrawUnready(sender, matchId) ==
    LET escrow == escrows[matchId]
        total == escrow.total
        fee == Fee(total)
        remaining == total - fee
        split == Split(remaining)
        bal1 == Transfer(balance, EscrowContract, escrow.player1, split)
        bal2 == Transfer(bal1, EscrowContract, escrow.player2, split)
        bal3 == IF fee > 0
                THEN Transfer(bal2, EscrowContract, escrow.admin, fee)
                ELSE bal2
    IN  IF escrow.admin = Zero
        THEN Revert("resolveDraw", "EscrowNotFound")
        ELSE IF ~isAdmin(sender, escrow)
        THEN Revert("resolveDraw", "NotAdmin")
        ELSE IF balance[EscrowContract] < split
                \/ bal1[EscrowContract] < split
                \/ (fee > 0 /\ bal2[EscrowContract] < fee)
        THEN Revert("resolveDraw", "TransferFailed")
        ELSE /\ balance' = bal3
             /\ escrows' = [escrows EXCEPT ![matchId] = EmptyEscrow]
             /\ Ok("resolveDraw")
             /\ UNCHANGED <<markets, userShares, hasClaimed, paid, created>>

resolveDraw(sender, matchId) ==
    LET escrow == escrows[matchId]
        total == escrow.total
        fee == Fee(total)
        remaining == total - fee
        split == Split(remaining)
        bal1 == Transfer(balance, EscrowContract, escrow.player1, split)
        bal2 == Transfer(bal1, EscrowContract, escrow.player2, split)
        bal3 == IF fee > 0
                THEN Transfer(bal2, EscrowContract, escrow.admin, fee)
                ELSE bal2
    IN  IF escrow.admin = Zero
        THEN Revert("resolveDraw", "EscrowNotFound")
        ELSE IF ~isAdmin(sender, escrow)
        THEN Revert("resolveDraw", "NotAdmin")
        ELSE IF ~escrow.deposited1 \/ ~escrow.deposited2
        THEN Revert("resolveDraw", "EscrowNotReady")
        ELSE IF balance[EscrowContract] < split
                \/ bal1[EscrowContract] < split
                \/ (fee > 0 /\ bal2[EscrowContract] < fee)
        THEN Revert("resolveDraw", "TransferFailed")
        ELSE /\ balance' = bal3
             /\ escrows' = [escrows EXCEPT ![matchId] = EmptyEscrow]
             /\ Ok("resolveDraw")
             /\ UNCHANGED <<markets, userShares, hasClaimed, paid, created>>

\* ------------------------------------------------------- PredictionMarket
EmptyMarket ==
    [admin |-> Zero, matchId |-> 0, player1 |-> Zero, player2 |-> Zero,
     status |-> 0, winningOutcome |-> 0, pool |-> 0, originalPoolSize |-> 0,
     player1Shares |-> 0, player2Shares |-> 0, drawShares |-> 0]

marketExists(matchId) == markets[matchId].admin # Zero

NewMarket(sender, matchId, player1, player2) ==
    [admin |-> sender, matchId |-> matchId, player1 |-> player1,
     player2 |-> player2, status |-> STATUS_ACTIVE, winningOutcome |-> 0,
     pool |-> 0, originalPoolSize |-> 0,
     player1Shares |-> 0, player2Shares |-> 0, drawShares |-> 0]

\* Variant of createMarket without the check that the id is free.
createMarketOverwrite(sender, matchId, player1, player2) ==
    IF ~(player1 # Zero /\ player2 # Zero)
    THEN Revert("createMarket", "Invalid players")
    ELSE /\ markets' = [markets EXCEPT
                           ![matchId] = NewMarket(sender, matchId, player1, player2)]
         /\ Ok("createMarket")
         /\ UNCHANGED <<escrows, userShares, hasClaimed, balance, paid, created>>

createMarket(sender, matchId, player1, player2) ==
    IF ~(markets[matchId].admin = Zero)
    THEN Revert("createMarket", "MarketAlreadyExists")
    ELSE IF ~(player1 # Zero /\ player2 # Zero)
    THEN Revert("createMarket", "Invalid players")
    ELSE /\ markets' = [markets EXCEPT
                           ![matchId] = NewMarket(sender, matchId, player1, player2)]
         /\ Ok("createMarket")
         /\ UNCHANGED <<escrows, userShares, hasClaimed, balance, paid, created>>

validOutcome(outcome) ==
    ~(outcome # OUTCOME_PLAYER1 /\ outcome # OUTCOME_PLAYER2 /\ outcome # OUTCOME_DRAW)

\* The per-outcome total of a market record.
outcomeShares(market, outcome) ==
    IF outcome = OUTCOME_PLAYER1 THEN market.player1Shares
    ELSE IF outcome = OUTCOME_PLAYER2 THEN market.player2Shares
    ELSE market.drawShares

\* Variant of BetPlaced in which a Draw bet is not added to the pool.
BetPlacedDrawOffPool(market, outcome, amount) ==
    IF outcome = OUTCOME_PLAYER1
    THEN [market EXCEPT !.player1Shares = @ + amount, !.pool = @ + amount]
    ELSE IF outcome = OUTCOME_PLAYER2
    THEN [market EXCEPT !.player2Shares = @ + amount, !.pool = @ + amount]
    ELSE [market EXCEPT !.drawShares = @ + amount]

\* Variant of BetPlaced in which the bet is added to the outcome's total
\* only, and not to the pool.
BetPlacedOutcomeOnly(market, outcome, amount) ==
    IF outcome = OUTCOME_PLAYER1
    THEN [market EXCEPT !.player1Shares = @ + amount]
    ELSE IF outcome = OUTCOME_PLAYER2
    THEN [market EXCEPT !.player2Shares = @ + amount]
    ELSE [market EXCEPT !.drawShares = @ + amount]

\* The market record after a bet of amount on outcome was taken.
BetPlaced(market, outcome, amount) ==
    LET totals == IF outcome = OUTCOME_PLAYER1
                  THEN [market EXCEPT !.player1Shares = @ + amount]
                  ELSE IF outcome = OUTCOME_PLAYER2
                  THEN [market EXCEPT !.player2Shares = @ + amount]
                  ELSE [market EXCEPT !.drawShares = @ + amount]
    IN  [totals EXCEPT !.pool = @ + amount]

bet(sender, matchId, outcome, amount, approved) ==
    LET market == markets[matchId]
    IN  IF ~validOutcome(outcome)
        THEN Revert("bet", "InvalidOutcome")
        ELSE IF amount = 0
        THEN Revert("bet", "ZeroBet")
        ELSE IF market.admin = Zero
        THEN Revert("bet", "MarketNotFound")
        ELSE IF market.status # STATUS_ACTIVE
        THEN Revert("bet", "MarketAlreadyResolved")
        ELSE IF ~approved \/ balance[sender] < amount
        THEN Revert("bet", "TransferFailed")
        ELSE /\ balance' = Transfer(balance, sender, MarketContract, amount)
             /\ markets' = [markets EXCEPT ![matchId] = BetPlaced(market, outcome, amount)]
             /\ userShares' = [userShares EXCEPT ![matchId][outcome][sender] = @ + amount]
             /\ Ok("bet")
             /\ UNCHANGED <<escrows, hasClaimed, paid, created>>

\* Variant of Resolved that leaves the market Active.
ResolvedStillActive(market, winningOutcome) ==
    [market EXCEPT !.winningOutcome = winningOutcome,
                   !.originalPoolSize = market.pool]

\* Variant of Resolved that leaves the pool snapshot unwritten.
ResolvedNoSnapshot(market, winningOutcome) ==
    [market EXCEPT !.status = STATUS_RESOLVED,
                   !.winningOutcome = winningOutcome]

\* Variant of Resolved whose snapshot is one unit more than the pool.
ResolvedInflatedSnapshot(market, winningOutcome) ==
    [market EXCEPT !.status = STATUS_RESOLVED,
                   !.winningOutcome = winningOutcome,
                   !.originalPoolSize = market.pool + 1]

\* The market record after resolution with the given outcome.
Resolved(market, winningOutcome) ==
    [market EXCEPT !.status = STATUS_RESOLVED,
                   !.winningOutcome = winningOutcome,
                   !.originalPoolSize = market.pool]

\* Variant of resolveMarket without the check that the market is Active.
resolveMarketAgain(sender, matchId, winningOutcome) ==
    LET market == markets[matchId]
    IN  IF ~validOutcome(winningOutcome)
        THEN Revert("resolveMarket", "InvalidOutcome")
        ELSE IF market.admin = Zero
        THEN Revert("resolveMarket", "MarketNotFound")
        ELSE IF ~isAdmin(sender, market)
        THEN Revert("resolveMarket", "NotAdmin")
        ELSE /\ markets' = [markets EXCEPT ![matchId] = Resolved(market, winningOutcome)]
             /\ Ok("resolveMarket")
             /\ UNCHANGED <<escrows, userShares, hasClaimed, balance, paid, created>>

resolveMarket(sender, matchId, winningOutcome) ==
    LET market == markets[matchId]
    IN  IF ~validOutcome(winningOutcome)
        THEN Revert("resolveMarket", "InvalidOutcome")
        ELSE IF market.admin = Zero
        THEN Revert("resolveMarket", "MarketNotFound")
        ELSE IF ~isAdmin(sender, market)
        THEN Revert("resolveMarket", "NotAdmin")
        ELSE IF market.status # STATUS_ACTIVE
        THEN Revert("resolveMarket", "MarketAlreadyResolved")
        ELSE /\ markets' = [markets EXCEPT ![matchId] = Resolved(market, winningOutcome)]
             /\ Ok("resolveMarket")
             /\ UNCHANGED <<escrows, userShares, hasClaimed, balance, paid, created>>

\* Variant of Reward that returns the caller's own stake, ignoring the pool.
RewardOwnStake(userShareAmount, originalPoolSize, winningOutcomeShares) ==
    (userShareAmount * winningOutcomeShares) \div winningOutcomeShares

\* Variant of Reward that rounds the quotient up.
RewardRoundedUp(userShareAmount, originalPoolSize, winningOutcomeShares) ==
    (userShareAmount * originalPoolSize + winningOutcomeShares - 1)
        \div winningOutcomeShares

\* Variant of Reward that divides before it multiplies.
RewardDivideFirst(userShareAmount, originalPoolSize, winningOutcomeShares) ==
    (userShareAmount \div winningOutcomeShares) * originalPoolSize

Reward(userShareAmount, originalPoolSize, winningOutcomeShares) ==
    (userShareAmount * originalPoolSize) \div winningOutcomeShares

\* Variant of MarkClaimed that sets the caller's flag in every market.
MarkClaimedEverywhere(claimed, matchId, sender) ==
    [m \in DOMAIN claimed |-> [claimed[m] EXCEPT ![sender] = TRUE]]

\* Variant of MarkClaimed that records nothing.
MarkClaimedNever(claimed, matchId, sender) == claimed

\* hasClaimed[matchId][sender] = true
MarkClaimed(claimed, matchId, sender) ==
    [claimed EXCEPT ![matchId][sender] = TRUE]

\* Variant of claimRewards that clears the caller's shares on every outcome of
\* the market, not only on the winning one.
claimRewardsClearsAllOutcomes(sender, matchId) ==
    LET market == markets[matchId]
        winningOutcome == market.winningOutcome
        userShareAmount == userShares[matchId][winningOutcome][sender]
        winningOutcomeShares == outcomeShares(market, winningOutcome)
        reward == Reward(userShareAmount, market.originalPoolSize, winningOutcomeShares)
    IN  IF market.admin = Zero
        THEN Revert("claimRewards", "MarketNotFound")
        ELSE IF market.status # STATUS_RESOLVED \/ market.winningOutcome = 0
        THEN Revert("claimRewards", "NotResolved")
        ELSE IF hasClaimed[matchId][sender]
        THEN Revert("claimRewards", "AlreadyClaimed")
        ELSE IF userShareAmount = 0
        THEN Revert("claimRewards", "NoShares")
        ELSE IF winningOutcomeShares = 0
        THEN Revert("claimRewards", "NoShares")
        ELSE IF balance[MarketContract] < reward
        THEN Revert("claimRewards", "TransferFailed")
        ELSE /\ hasClaimed' = MarkClaimed(hasClaimed, matchId, sender)
             /\ userShares' = [userShares EXCEPT
                                  ![matchId] = [o \in Outcomes |->
                                                   [@[o] EXCEPT ![sender] = 0]]]
             /\ balance' = Transfer(balance, MarketContract, sender, reward)
             /\ paid' = [paid EXCEPT ![matchId] = @ + reward]
             /\ Ok("claimRewards")
             /\ UNCHANGED <<escrows, markets, created>>

\* paid[matchId] accumulates the rewards transferred for the market (history).
claimRewards(sender, matchId) ==
    LET market == markets[matchId]
        winningOutcome == market.winningOutcome
        userShareAmount == userShares[matchId][winningOutcome][sender]
        winningOutcomeShares == outcomeShares(market, winningOutcome)
        reward == Reward(userShareAmount, market.originalPoolSize, winningOutcomeShares)
    IN  IF market.admin = Zero
        THEN Revert("claimRewards", "MarketNotFound")
        ELSE IF market.status # STATUS_RESOLVED \/ market.winningOutcome = 0
        THEN Revert("claimRewards", "NotResolved")
        ELSE IF hasClaimed[matchId][sender]
        THEN Revert("claimRewards", "AlreadyClaimed")
        ELSE IF userShareAmount = 0
        THEN Revert("claimRewards", "NoShares")
        ELSE IF winningOutcomeShares = 0
        THEN Revert("claimRewards", "NoShares")
        ELSE IF balance[MarketContract] < reward
        THEN Revert("claimRewards", "TransferFailed")
        ELSE /\ hasClaimed' = MarkClaimed(hasClaimed, matchId, sender)
             /\ userShares' = [userShares EXCEPT ![matchId][winningOutcome][sender] = 0]
             /\ balance' = Transfer(balance, MarketContract, sender, reward)
             /\ paid' = [paid EXCEPT ![matchId] = @ + reward]
             /\ Ok("claimRewards")
             /\ UNCHANGED <<escrows, markets, created>>

\* Variant of claimRewards in which the claim flag and the share are not yet
\* written when the transfer is invoked.
claimRewardsUntilTransferUnmarked(sender, matchId, moved) ==
    LET market == markets[matchId]
        winningOutcome == market.winningOutcome
        userShareAmount == userShares[matchId][winningOutcome][sender]
        winningOutcomeShares == outcomeShares(market, winningOutcome)
        reward == Reward(userShareAmount, market.originalPoolSize, winningOutcomeShares)
    IN  IF market.admin = Zero
        THEN Revert("claimRewards", "MarketNotFound")
        ELSE IF market.status # STATUS_RESOLVED \/ market.winningOutcome = 0
        THEN Revert("claimRewards", "NotResolved")
        ELSE IF hasClaimed[matchId][sender]
        THEN Revert("claimRewards", "AlreadyClaimed")
        ELSE IF userShareAmount = 0
        THEN Revert("claimRewards", "NoShares")
        ELSE IF winningOutcomeShares = 0
        THEN Revert("claimRewards", "NoShares")
        ELSE IF moved /\ balance[MarketContract] < reward
        THEN Revert("claimRewards", "TransferFailed")
        ELSE /\ balance' = IF moved
                           THEN Transfer(balance, MarketContract, sender, reward)
                           ELSE balance
             /\ inFlight' = [op |-> "claimRewards", sender |-> sender,
                             matchId |-> matchId, slot |-> 0,
                             amount |-> reward, moved |-> moved,
                             saved |-> Snapshot]
             /\ last' = [op |-> "claimRewards", res |-> "transfer"]
             /\ UNCHANGED <<escrows, markets, userShares, hasClaimed, paid, created>>
             /\ UNCHANGED <<chain, aptos>>

\* claimRewards up to its call of token.safeTransfer, for a token that calls
\* the receiver back during the transfer: the checks have run and the claim
\* flag and the zeroed share are already written.
claimRewardsUntilTransfer(sender, matchId, moved) ==
    LET market == markets[matchId]
        winningOutcome == market.winningOutcome
        userShareAmount == userShares[matchId][winningOutcome][sender]
        winningOutcomeShares == outcomeShares(market, winningOutcome)
        reward == Reward(userShareAmount, market.originalPoolSize, winningOutcomeShares)
    IN  IF market.admin = Zero
        THEN Revert("claimRewards", "MarketNotFound")
        ELSE IF market.status # STATUS_RESOLVED \/ market.winningOutcome = 0
        THEN Revert("claimRewards", "NotResolved")
        ELSE IF hasClaimed[matchId][sender]
        THEN Revert("claimRewards", "AlreadyClaimed")
        ELSE IF userShareAmount = 0
        THEN Revert("claimRewards", "NoShares")
        ELSE IF winningOutcomeShares = 0
        THEN Revert("claimRewards", "NoShares")
        ELSE IF moved /\ balance[MarketContract] < reward
        THEN Revert("claimRewards", "TransferFailed")
        ELSE /\ hasClaimed' = MarkClaimed(hasClaimed, matchId, sender)
             /\ userShares' = [userShares EXCEPT ![matchId][winningOutcome][sender] = 0]
             /\ balance' = IF moved
                           THEN Transfer(balance, MarketContract, sender, reward)
                           ELSE balance
             /\ inFlight' = [op |-> "claimRewards", sender |-> sender,
                             matchId |-> matchId, slot |-> 0,
                             amount |-> reward, moved |-> moved,
                             saved |-> Snapshot]
             /\ last' = [op |-> "claimRewards", res |-> "transfer"]
             /\ UNCHANGED <<escrows, markets, paid, created>>
             /\ UNCHANGED <<chain, aptos>>

\* The transfer of a claim returns; claimRewards then only emits its event.
claimRewardsAfterTransfer ==
    LET call == inFlight
    IN  /\ call.op = "claimRewards"
        /\ IF ~call.moved /\ balance[MarketContract] < call.amount
           THEN RevertTo(call.saved, "claimRewards", "TransferFailed")
           ELSE /\ balance' = IF call.moved THEN balance
                              ELSE Transfer(balance, MarketContract, call.sender,
                                            call.amount)
                /\ paid' = [paid EXCEPT ![call.matchId] = @ + call.amount]
                /\ last' = [op |-> "claimRewards", res |-> "ok"]
                /\ inFlight' = NoCall
                /\ UNCHANGED <<escrows, markets, userShares, hasClaimed, created>>
                /\ UNCHANGED <<chain, aptos>>

\* ------------------------------------------------- Move: tables and aborts
\* std::table: a table is a function whose domain is the set of keys it holds.
EmptyTable == [k \in {} |-> k]

TableAdd(t, k, v) == [x \in (DOMAIN t) \cup {k} |-> IF x = k THEN v ELSE t[x]]

\* Variant of TableRemove that leaves the entry in the table.
TableRemoveNothing(t, k) == t

TableRemove(t, k) == [x \in (DOMAIN t) \ {k} |-> t[x]]

\* An aborted transaction: nothing but the recorded abort code changes.
Abort(op, code) ==
    /\ last' = [op |-> op, res |-> code]
    /\ UNCHANGED <<chain, ledger, aptos, inFlight>>

Done(op) ==
    /\ last' = [op |-> op, res |-> "ok"]
    /\ UNCHANGED <<chain, ledger, inFlight>>

\* ------------------------------------------------- chess_escrow::escrow
NoEscrowStore == [exists |-> FALSE, escrows |-> EmptyTable]

escrow_initialize(admin) ==
    /\ EscrowStore' = IF ~EscrowStore[admin].exists
                      THEN [EscrowStore EXCEPT
                               ![admin] = [exists |-> TRUE, escrows |-> EmptyTable]]
                      ELSE EscrowStore
    /\ Done("escrow::initialize")
    /\ UNCHANGED <<MarketStore, OutcomeSharesStore, ClaimTrackingStore, coin>>

\* borrow_global_mut of a resource that is not published aborts in the VM
\* (MISSING_DATA), before any code of the module runs.
create_escrow(admin, match_id, player1, player2, amount) ==
    LET store == EscrowStore[admin]
    IN  IF ~store.exists
        THEN Abort("create_escrow", "MISSING_DATA")
        ELSE IF ~(match_id \notin DOMAIN store.escrows)
        THEN Abort("create_escrow", "EESCROW_ALREADY_EXISTS")
        ELSE /\ created < MaxCreates
             /\ EscrowStore' = [EscrowStore EXCEPT ![admin].escrows =
                                   TableAdd(@, match_id,
                                            NewEscrow(admin, player1, player2, amount))]
             /\ last' = [op |-> "create_escrow", res |-> "ok"]
             /\ created' = created + 1
             /\ UNCHANGED <<chain, inFlight, escrows, markets, userShares, hasClaimed,
                            balance, paid>>
             /\ UNCHANGED <<MarketStore, OutcomeSharesStore, ClaimTrackingStore, coin>>

\* coin::transfer aborts (EINSUFFICIENT_BALANCE) when the payer's balance is
\* below the amount.
escrow_deposit(player, admin, match_id) ==
    LET store == EscrowStore[admin]
        escrow == store.escrows[match_id]
        slot == IF player = escrow.player1 THEN 1
                ELSE IF player = escrow.player2 THEN 2 ELSE 0
        done == IF slot = 1 THEN escrow.deposited1 ELSE escrow.deposited2
    IN  IF ~store.exists
        THEN Abort("escrow::deposit", "MISSING_DATA")
        ELSE IF ~(match_id \in DOMAIN store.escrows)
        THEN Abort("escrow::deposit", "EESCROW_NOT_FOUND")
        ELSE IF slot = 0
        THEN /\ Done("escrow::deposit")
             /\ UNCHANGED aptos
        ELSE IF done
        THEN Abort("escrow::deposit", "EALREADY_DEPOSITED")
        ELSE IF coin[player] < escrow.amount
        THEN Abort("escrow::deposit", "EINSUFFICIENT_BALANCE")
        ELSE /\ coin' = Transfer(coin, player, admin, escrow.amount)
             /\ EscrowStore' = [EscrowStore EXCEPT ![admin].escrows[match_id] =
                                   Deposited(escrow, slot)]
             /\ Done("escrow::deposit")
             /\ UNCHANGED <<MarketStore, OutcomeSharesStore, ClaimTrackingStore>>

\* fee = total * 5 / 100
MoveFee(total) == (total * 5) \div 100

resolve_win(admin, match_id, winner) ==
    LET store == EscrowStore[admin]
        escrow == store.escrows[match_id]
        total == escrow.total
        fee == MoveFee(total)
        payout == total - fee
    IN  IF ~store.exists
        THEN Abort("resolve_win", "MISSING_DATA")
        ELSE IF ~(match_id \in DOMAIN store.escrows)
        THEN Abort("resolve_win", "EESCROW_NOT_FOUND")
        ELSE IF ~(admin = escrow.admin)
        THEN Abort("resolve_win", "ENOT_ADMIN")
        ELSE IF ~(escrow.deposited1 /\ escrow.deposited2)
        THEN Abort("resolve_win", "EESCROW_NOT_READY")
        ELSE IF coin[admin] < payout
        THEN Abort("resolve_win", "EINSUFFICIENT_BALANCE")
        ELSE /\ coin' = Transfer(coin, admin, winner, payout)
             /\ EscrowStore' = [EscrowStore EXCEPT ![admin].escrows =
                                   TableRemove(@, match_id)]
             /\ Done("resolve_win")
             /\ UNCHANGED <<MarketStore, OutcomeSharesStore, ClaimTrackingStore>>

resolve_draw(admin, match_id) ==
    LET store == EscrowStore[admin]
        escrow == store.escrows[match_id]
        total == escrow.total
        fee == MoveFee(total)
        remaining == total - fee
        split == remaining \div 2
        coin1 == Transfer(coin, admin, escrow.player1, split)
        coin2 == Transfer(coin1, admin, escrow.player2, split)
    IN  IF ~store.exists
        THEN Abort("resolve_draw", "MISSING_DATA")
        ELSE IF ~(match_id \in DOMAIN store.escrows)
        THEN Abort("resolve_draw", "EESCROW_NOT_FOUND")
        ELSE IF ~(admin = escrow.admin)
        THEN Abort("resolve_draw", "ENOT_ADMIN")
        ELSE IF ~(escrow.deposited1 /\ escrow.deposited2)
        THEN Abort("resolve_draw", "EESCROW_NOT_READY")
        ELSE IF coin[admin] < split \/ coin1[admin] < split
        THEN Abort("resolve_draw", "EINSUFFICIENT_BALANCE")
        ELSE /\ coin' = coin2
             /\ EscrowStore' = [EscrowStore EXCEPT ![admin].escrows =
                                   TableRemove(@, match_id)]
             /\ Done("resolve_draw")
             /\ UNCHANGED <<MarketStore, OutcomeSharesStore, ClaimTrackingStore>>

\* ------------------------------------------ chess_escrow::prediction_market
\* The three resources initialize publishes; pool is the value of the
\* Coin<AptosCoin> the market holds.
NoMarketStore == [exists |-> FALSE, markets |-> EmptyTable]

NoOutcomeSharesStore == [exists |-> FALSE, shares |-> EmptyTable]

NoClaimTrackingStore == [exists |-> FALSE, claims |-> EmptyTable]

market_initialize(admin) ==
    /\ MarketStore' = IF ~MarketStore[admin].exists
                      THEN [MarketStore EXCEPT
                               ![admin] = [exists |-> TRUE, markets |-> EmptyTable]]
                      ELSE MarketStore
    /\ OutcomeSharesStore' = IF ~OutcomeSharesStore[admin].exists
                             THEN [OutcomeSharesStore EXCEPT
                                      ![admin] = [exists |-> TRUE, shares |-> EmptyTable]]
                             ELSE OutcomeSharesStore
    /\ ClaimTrackingStore' = IF ~ClaimTrackingStore[admin].exists
                             THEN [ClaimTrackingStore EXCEPT
                                      ![admin] = [exists |-> TRUE, claims |-> EmptyTable]]
                             ELSE ClaimTrackingStore
    /\ Done("prediction_market::initialize")
    /\ UNCHANGED <<EscrowStore, coin>>

MoveNewMarket(admin_addr, match_id, player1, player2) ==
    [admin |-> admin_addr, match_id |-> match_id, player1 |-> player1,
     player2 |-> player2, status |-> STATUS_ACTIVE, winning_outcome |-> 0,
     pool |-> 0, original_pool_size |-> 0,
     player1_shares |-> 0, player2_shares |-> 0, draw_shares |-> 0]

create_market(admin, match_id, player1, player2) ==
    LET store == MarketStore[admin]
    IN  IF ~store.exists
        THEN Abort("create_market", "MISSING_DATA")
        ELSE IF ~(match_id \notin DOMAIN store.markets)
        THEN Abort("create_market", "EMARKET_ALREADY_EXISTS")
        ELSE /\ MarketStore' = [MarketStore EXCEPT ![admin].markets =
                                   TableAdd(@, match_id,
                                            MoveNewMarket(admin, match_id, player1, player2))]
             /\ Done("create_market")
             /\ UNCHANGED <<EscrowStore, OutcomeSharesStore, ClaimTrackingStore, coin>>

\* The market record after amount was merged into the pool and added to the
\* outcome's total.
MoveBetPlaced(market, outcome, amount) ==
    LET merged == [market EXCEPT !.pool = @ + amount]
    IN  IF outcome = OUTCOME_PLAYER1
        THEN [merged EXCEPT !.player1_shares = @ + amount]
        ELSE IF outcome = OUTCOME_PLAYER2
        THEN [merged EXCEPT !.player2_shares = @ + amount]
        ELSE [merged EXCEPT !.draw_shares = @ + amount]

\* Variant of SharesAdded that stores the amount of the bet as the user's
\* share instead of adding it to the share already held.
SharesAddedOverwriting(shares, match_id, outcome, user_addr, amount) ==
    LET outcome_table == IF match_id \in DOMAIN shares
                         THEN shares[match_id] ELSE EmptyTable
        user_shares == IF outcome \in DOMAIN outcome_table
                       THEN outcome_table[outcome] ELSE EmptyTable
    IN  TableAdd(shares, match_id,
                 TableAdd(outcome_table, outcome,
                          TableAdd(user_shares, user_addr, amount)))

\* shares[match_id][outcome][user_addr] += amount, creating the missing levels.
SharesAdded(shares, match_id, outcome, user_addr, amount) ==
    LET outcome_table == IF match_id \in DOMAIN shares
                         THEN shares[match_id] ELSE EmptyTable
        user_shares == IF outcome \in DOMAIN outcome_table
                       THEN outcome_table[outcome] ELSE EmptyTable
        current_shares == IF user_addr \in DOMAIN user_shares
                          THEN user_shares[user_addr] ELSE 0
    IN  TableAdd(shares, match_id,
                 TableAdd(outcome_table, outcome,
                          TableAdd(user_shares, user_addr, current_shares + amount)))

market_bet(user, admin, match_id, outcome, amount) ==
    LET market_store == MarketStore[admin]
        market == market_store.markets[match_id]
    IN  IF ~validOutcome(outcome)
        THEN Abort("prediction_market::bet", "EINVALID_OUTCOME")
        ELSE IF ~(amount > 0)
        THEN Abort("prediction_market::bet", "EZERO_BET")
        ELSE IF ~market_store.exists
        THEN Abort("prediction_market::bet", "MISSING_DATA")
        ELSE IF ~(match_id \in DOMAIN market_store.markets)
        THEN Abort("prediction_market::bet", "EMARKET_NOT_FOUND")
        ELSE IF ~(market.status = STATUS_ACTIVE)
        THEN Abort("prediction_market::bet", "EMARKET_ALREADY_RESOLVED")
        ELSE IF coin[user] < amount
        THEN Abort("prediction_market::bet", "EINSUFFICIENT_BALANCE")
        ELSE IF ~OutcomeSharesStore[admin].exists
        THEN Abort("prediction_market::bet", "MISSING_DATA")
        ELSE /\ coin' = [coin EXCEPT ![user] = @ - amount]
             /\ MarketStore' = [MarketStore EXCEPT ![admin].markets[match_id] =
                                   MoveBetPlaced(market, outcome, amount)]
             /\ OutcomeSharesStore' =
                    [OutcomeSharesStore EXCEPT ![admin].shares =
                        SharesAdded(@, match_id, outcome, user, amount)]
             /\ Done("prediction_market::bet")
             /\ UNCHANGED <<EscrowStore, ClaimTrackingStore>>

MoveResolved(market, winning_outcome) ==
    [market EXCEPT !.status = STATUS_RESOLVED,
                   !.winning_outcome = winning_outcome,
                   !.original_pool_size = market.pool]

resolve_market(admin, match_id, winning_outcome) ==
    LET store == MarketStore[admin]
        market == store.markets[match_id]
        claims == ClaimTrackingStore[admin].claims
    IN  IF ~store.exists
        THEN Abort("resolve_market", "MISSING_DATA")
        ELSE IF ~(match_id \in DOMAIN store.markets)
        THEN Abort("resolve_market", "EMARKET_NOT_FOUND")
        ELSE IF ~validOutcome(winning_outcome)
        THEN Abort("resolve_market", "EINVALID_OUTCOME")
        ELSE IF ~(admin = market.admin)
        THEN Abort("resolve_market", "ENOT_ADMIN")
        ELSE IF ~(market.status = STATUS_ACTIVE)
        THEN Abort("resolve_market", "EMARKET_ALREADY_RESOLVED")
        ELSE IF ~ClaimTrackingStore[admin].exists
        THEN Abort("resolve_market", "MISSING_DATA")
        ELSE /\ MarketStore' = [MarketStore EXCEPT ![admin].markets[match_id] =
                                   MoveResolved(market, winning_outcome)]
             /\ ClaimTrackingStore' =
                    IF ~(match_id \in DOMAIN claims)
                    THEN [ClaimTrackingStore EXCEPT ![admin].claims =
                             TableAdd(@, match_id, EmptyTable)]
                    ELSE ClaimTrackingStore
             /\ Done("resolve_market")
             /\ UNCHANGED <<EscrowStore, OutcomeSharesStore, coin>>

MoveOutcomeShares(market, outcome) ==
    IF outcome = OUTCOME_PLAYER1 THEN market.player1_shares
    ELSE IF outcome = OUTCOME_PLAYER2 THEN market.player2_shares
    ELSE market.draw_shares

\* table::borrow_mut of a key the table does not hold aborts in std::table
\* (EINVALID_ARGUMENT); coin::extract aborts (EINSUFFICIENT_BALANCE) when the
\* pool holds less than the reward.
claim_rewards(user, admin, match_id) ==
    LET market_store == MarketStore[admin]
        market == market_store.markets[match_id]
        claims == ClaimTrackingStore[admin].claims
        claimed == claims[match_id]
        winning_outcome == market.winning_outcome
        shares == OutcomeSharesStore[admin].shares
        outcome_table == shares[match_id]
        user_shares == outcome_table[winning_outcome]
        user_share_amount == user_shares[user]
        winning_outcome_shares == MoveOutcomeShares(market, winning_outcome)
        reward == Reward(user_share_amount, market.original_pool_size,
                         winning_outcome_shares)
    IN  IF ~market_store.exists
        THEN Abort("claim_rewards", "MISSING_DATA")
        ELSE IF ~(match_id \in DOMAIN market_store.markets)
        THEN Abort("claim_rewards", "EMARKET_NOT_FOUND")
        ELSE IF ~(market.status = STATUS_RESOLVED)
        THEN Abort("claim_rewards", "ENOT_RESOLVED")
        ELSE IF ~(market.winning_outcome # 0)
        THEN Abort("claim_rewards", "ENOT_RESOLVED")
        ELSE IF ~ClaimTrackingStore[admin].exists
        THEN Abort("claim_rewards", "MISSING_DATA")
        ELSE IF ~(match_id \in DOMAIN claims)
        THEN Abort("claim_rewards", "EINVALID_ARGUMENT")
        ELSE IF user \in DOMAIN claimed /\ claimed[user]
        THEN Abort("claim_rewards", "EALREADY_CLAIMED")
        ELSE IF ~OutcomeSharesStore[admin].exists
        THEN Abort("claim_rewards", "MISSING_DATA")
        ELSE IF ~(match_id \in DOMAIN shares)
        THEN Abort("claim_rewards", "EMARKET_NOT_FOUND")
        ELSE IF ~(winning_outcome \in DOMAIN outcome_table)
        THEN Abort("claim_rewards", "EMARKET_NOT_FOUND")
        ELSE IF ~(user \in DOMAIN user_shares)
        THEN Abort("claim_rewards", "ENO_SHARES")
        ELSE IF ~(user_share_amount > 0)
        THEN Abort("claim_rewards", "ENO_SHARES")
        ELSE IF ~(winning_outcome_shares > 0)
        THEN Abort("claim_rewards", "ENO_SHARES")
        ELSE IF market.pool < reward
        THEN Abort("claim_rewards", "EINSUFFICIENT_BALANCE")
        ELSE /\ ClaimTrackingStore' =
                    [ClaimTrackingStore EXCEPT ![admin].claims[match_id] =
                        TableAdd(@, user, TRUE)]
             /\ OutcomeSharesStore' =
                    [OutcomeSharesStore EXCEPT
                        ![admin].shares[match_id][winning_outcome] =
                            TableRemove(@, user)]
             /\ MarketStore' = [MarketStore EXCEPT
                                   ![admin].markets[match_id].pool = @ - reward]
             /\ coin' = [coin EXCEPT ![user] = @ + reward]
             /\ Done("claim_rewards")
             /\ UNCHANGED EscrowStore

\* ------------------------------------------------------- read-only queries
\* A query returns Returned(value), or Failed(reason) when it reverts or
\* aborts; it reads the state and writes nothing.
Returned(value) == [res |-> "ok", ret |-> value]
Failed(reason) == [res |-> reason]

getPotentialReward(matchId, outcome, user) ==
    LET market == markets[matchId]
        userShareAmount == IF outcome \in Outcomes
                           THEN userShares[matchId][outcome][user] ELSE 0
        outcomeTotal == outcomeShares(market, outcome)
        totalPool == market.pool
    IN  IF market.admin = Zero THEN Returned(0)
        ELSE IF userShareAmount = 0 THEN Returned(0)
        ELSE IF market.status = STATUS_RESOLVED /\ market.winningOutcome # outcome
        THEN Returned(0)
        ELSE IF outcomeTotal = 0 THEN Returned(0)
        ELSE Returned((userShareAmount * totalPool) \div outcomeTotal)

\* shares[match_id][outcome].shares[user] of admin a's store, 0 where a level
\* of the tables is missing.
MoveSharesOf(a, match_id, outcome, user) ==
    LET shares == OutcomeSharesStore[a].shares
    IN  IF match_id \notin DOMAIN shares THEN 0
        ELSE IF outcome \notin DOMAIN shares[match_id] THEN 0
        ELSE IF user \notin DOMAIN shares[match_id][outcome] THEN 0
        ELSE shares[match_id][outcome][user]

get_user_shares(admin, match_id, outcome, user) ==
    IF ~OutcomeSharesStore[admin].exists THEN Failed("MISSING_DATA")
    ELSE Returned(MoveSharesOf(admin, match_id, outcome, user))

get_potential_reward(admin, match_id, outcome, user) ==
    LET market_store == MarketStore[admin]
        market == market_store.markets[match_id]
        user_shares == get_user_shares(admin, match_id, outcome, user)
        outcome_shares == MoveOutcomeShares(market, outcome)
        total_pool == market.pool
    IN  IF ~market_store.exists THEN Failed("MISSING_DATA")
        ELSE IF ~(match_id \in DOMAIN market_store.markets) THEN Returned(0)
        ELSE IF user_shares.res # "ok" THEN user_shares
        ELSE IF user_shares.ret = 0 THEN Returned(0)
        ELSE IF market.status = STATUS_RESOLVED /\ market.winning_outcome # outcome
        THEN Returned(0)
        ELSE IF outcome_shares = 0 THEN Returned(0)
        ELSE Returned((user_shares.ret * total_pool) \div outcome_shares)

getEscrow(matchId) ==
    LET escrow == escrows[matchId]
    IN  IF escrow.admin = Zero THEN Failed("EscrowNotFound")
        ELSE Returned(<<escrow.admin, escrow.player1, escrow.player2, escrow.amount,
                        escrow.total, escrow.deposited1, escrow.deposited2>>)

\* Variant of getMarketStats that returns the stored (zero) fields of an
\* absent market instead of reverting.
getMarketStatsUnchecked(matchId) ==
    LET market == markets[matchId]
    IN  Returned(<<market.status, market.winningOutcome, market.pool,
                   market.player1Shares, market.player2Shares, market.drawShares>>)

getMarketStats(matchId) ==
    LET market == markets[matchId]
    IN  IF market.admin = Zero THEN Failed("MarketNotFound")
        ELSE Returned(<<market.status, market.winningOutcome, market.pool,
                        market.player1Shares, market.player2Shares,
                        market.drawShares>>)

getUserShares(matchId, outcome, user) ==
    Returned(IF outcome \in Outcomes THEN userShares[matchId][outcome][user] ELSE 0)

hasUserClaimed(matchId, user) == Returned(hasClaimed[matchId][user])

getUserAllShares(matchId, user) ==
    Returned(<<userShares[matchId][OUTCOME_PLAYER1][user],
               userShares[matchId][OUTCOME_PLAYER2][user],
               userShares[matchId][OUTCOME_DRAW][user]>>)

getMarketAdmin(matchId) ==
    LET market == markets[matchId]
    IN  IF market.admin = Zero THEN Failed("MarketNotFound")
        ELSE Returned(market.admin)

get_market_stats(admin, match_id) ==
    LET store == MarketStore[admin]
        market == store.markets[match_id]
    IN  IF ~store.exists THEN Failed("MISSING_DATA")
        ELSE IF ~(match_id \in DOMAIN store.markets) THEN Failed("EMARKET_NOT_FOUND")
        ELSE Returned(<<market.status, market.winning_outcome, market.pool,
                        market.player1_shares, market.player2_shares,
                        market.draw_shares>>)

\* claim_status.claimed[user] of admin a's store for match_id, FALSE where a
\* level of the tables is missing.
MoveHasClaimed(a, match_id, user) ==
    LET claims == ClaimTrackingStore[a].claims
    IN  /\ match_id \in DOMAIN claims
        /\ user \in DOMAIN claims[match_id]
        /\ claims[match_id][user]

has_claimed(admin, match_id, user) ==
    IF ~ClaimTrackingStore[admin].exists THEN Failed("MISSING_DATA")
    ELSE Returned(MoveHasClaimed(admin, match_id, user))

get_user_all_shares(admin, match_id, user) ==
    LET p1 == get_user_shares(admin, match_id, OUTCOME_PLAYER1, user)
        p2 == get_user_shares(admin, match_id, OUTCOME_PLAYER2, user)
        draw == get_user_shares(admin, match_id, OUTCOME_DRAW, user)
    IN  IF p1.res # "ok" THEN p1
        ELSE Returned(<<p1.ret, p2.ret, draw.ret>>)

market_exists(admin, match_id) ==
    LET store == MarketStore[admin]
    IN  IF ~store.exists THEN Failed("MISSING_DATA")
        ELSE Returned(match_id \in DOMAIN store.markets)

get_market_admin(admin, match_id) ==
    LET store == MarketStore[admin]
    IN  IF ~store.exists THEN Failed("MISSING_DATA")
        ELSE IF ~(match_id \in DOMAIN store.markets) THEN Failed("EMARKET_NOT_FOUND")
        ELSE Returned(store.markets[match_id].admin)

\* ------------------------------------- operations as functions of the ledger
\* The state-changing functions of the two Solidity contracts written as
\* functions from a ledger L (the contracts' storage and the token balances)
\* to the result of the call and the ledger after it; a reverted call returns
\* L itself. They serve to run two calls one after the other from one state.
Ledger ==
    [escrows |-> escrows, markets |-> markets, userShares |-> userShares,
     hasClaimed |-> hasClaimed, balance |-> balance]

Reverted(L, err) == [res |-> err, ledger |-> L]
Succeeded(L) == [res |-> "ok", ledger |-> L]

createEscrowOn(L, sender, matchId, player1, player2, amount) ==
    IF L.escrows[matchId].admin # Zero THEN Reverted(L, "EscrowAlreadyExists")
    ELSE IF ~(player1 # Zero /\ player2 # Zero) THEN Reverted(L, "Invalid players")
    ELSE IF ~(amount > 0) THEN Reverted(L, "Invalid amount")
    ELSE Succeeded([L EXCEPT !.escrows[matchId] =
                                 NewEscrow(sender, player1, player2, amount)])

depositOn(L, sender, matchId, approved) ==
    LET escrow == L.escrows[matchId]
        slot == IF sender = escrow.player1 THEN 1
                ELSE IF sender = escrow.player2 THEN 2 ELSE 0
        done == IF slot = 1 THEN escrow.deposited1 ELSE escrow.deposited2
    IN  IF escrow.admin = Zero THEN Reverted(L, "EscrowNotFound")
        ELSE IF slot = 0 THEN Reverted(L, "EscrowNotFound")
        ELSE IF done THEN Reverted(L, "AlreadyDeposited")
        ELSE IF ~approved \/ L.balance[sender] < escrow.amount
        THEN Reverted(L, "TransferFailed")
        ELSE Succeeded([L EXCEPT
                 !.balance = Transfer(@, sender, EscrowContract, escrow.amount),
                 !.escrows[matchId] = Deposited(escrow, slot)])

resolveWinOn(L, sender, matchId, winner) ==
    LET escrow == L.escrows[matchId]
        total == escrow.total
        fee == Fee(total)
        payout == total - fee
        bal1 == Transfer(L.balance, EscrowContract, winner, payout)
        bal2 == IF fee > 0
                THEN Transfer(bal1, EscrowContract, escrow.admin, fee)
                ELSE bal1
    IN  IF escrow.admin = Zero THEN Reverted(L, "EscrowNotFound")
        ELSE IF ~isAdmin(sender, escrow) THEN Reverted(L, "NotAdmin")
        ELSE IF ~escrow.deposited1 \/ ~escrow.deposited2
        THEN Reverted(L, "EscrowNotReady")
        ELSE IF L.balance[EscrowContract] < payout
                \/ (fee > 0 /\ bal1[EscrowContract] < fee)
        THEN Reverted(L, "TransferFailed")
        ELSE Succeeded([L EXCEPT !.balance = bal2,
                                 !.escrows[matchId] = EmptyEscrow])

resolveDrawOn(L, sender, matchId) ==
    LET escrow == L.escrows[matchId]
        total == escrow.total
        fee == Fee(total)
        remaining == total - fee
        split == Split(remaining)
        bal1 == Transfer(L.balance, EscrowContract, escrow.player1, split)
        bal2 == Transfer(bal1, EscrowContract, escrow.player2, split)
        bal3 == IF fee > 0
                THEN Transfer(bal2, EscrowContract, escrow.admin, fee)
                ELSE bal2
    IN  IF escrow.admin = Zero THEN Reverted(L, "EscrowNotFound")
        ELSE IF ~isAdmin(sender, escrow) THEN Reverted(L, "NotAdmin")
        ELSE IF ~escrow.deposited1 \/ ~escrow.deposited2
        THEN Reverted(L, "EscrowNotReady")
        ELSE IF L.balance[EscrowContract] < split
                \/ bal1[EscrowContract] < split
                \/ (fee > 0 /\ bal2[EscrowContract] < fee)
        THEN Reverted(L, "TransferFailed")
        ELSE Succeeded([L EXCEPT !.balance = bal3,
                                 !.escrows[matchId] = EmptyEscrow])

createMarketOn(L, sender, matchId, player1, player2) ==
    IF ~(L.markets[matchId].admin = Zero) THEN Reverted(L, "MarketAlreadyExists")
    ELSE IF ~(player1 # Zero /\ player2 # Zero) THEN Reverted(L, "Invalid players")
    ELSE Succeeded([L EXCEPT !.markets[matchId] =
                                 NewMarket(sender, matchId, player1, player2)])

betOn(L, sender, matchId, outcome, amount, approved) ==
    LET market == L.markets[matchId]
    IN  IF ~validOutcome(outcome) THEN Reverted(L, "InvalidOutcome")
        ELSE IF amount = 0 THEN Reverted(L, "ZeroBet")
        ELSE IF market.admin = Zero THEN Reverted(L, "MarketNotFound")
        ELSE IF market.status # STATUS_ACTIVE
        THEN Reverted(L, "MarketAlreadyResolved")
        ELSE IF ~approved \/ L.balance[sender] < amount
        THEN Reverted(L, "TransferFailed")
        ELSE Succeeded([L EXCEPT
                 !.balance = Transfer(@, sender, MarketContract, amount),
                 !.markets[matchId] = BetPlaced(market, outcome, amount),
                 !.userShares[matchId][outcome][sender] = @ + amount])

resolveMarketOn(L, sender, matchId, winningOutcome) ==
    LET market == L.markets[matchId]
    IN  IF ~validOutcome(winningOutcome) THEN Reverted(L, "InvalidOutcome")
        ELSE IF market.admin = Zero THEN Reverted(L, "MarketNotFound")
        ELSE IF ~isAdmin(sender, market) THEN Reverted(L, "NotAdmin")
        ELSE IF market.status # STATUS_ACTIVE
        THEN Reverted(L, "MarketAlreadyResolved")
        ELSE Succeeded([L EXCEPT !.markets[matchId] =
                                     Resolved(market, winningOutcome)])

\* Variant of claimRewardsOn that shares out what the contract holds at the
\* time of the claim instead of the snapshot taken at resolution.
claimRewardsOnLiveBalance(L, sender, matchId) ==
    LET market == L.markets[matchId]
        winningOutcome == market.winningOutcome
        userShareAmount == L.userShares[matchId][winningOutcome][sender]
        winningOutcomeShares == outcomeShares(market, winningOutcome)
        reward == Reward(userShareAmount, L.balance[MarketContract], winningOutcomeShares)
    IN  IF market.admin = Zero THEN Reverted(L, "MarketNotFound")
        ELSE IF market.status # STATUS_RESOLVED \/ market.winningOutcome = 0
        THEN Reverted(L, "NotResolved")
        ELSE IF L.hasClaimed[matchId][sender] THEN Reverted(L, "AlreadyClaimed")
        ELSE IF userShareAmount = 0 THEN Reverted(L, "NoShares")
        ELSE IF winningOutcomeShares = 0 THEN Reverted(L, "NoShares")
        ELSE IF L.balance[MarketContract] < reward THEN Reverted(L, "TransferFailed")
        ELSE Succeeded([L EXCEPT
                 !.hasClaimed = MarkClaimed(@, matchId, sender),
                 !.userShares[matchId][winningOutcome][sender] = 0,
                 !.balance = Transfer(@, MarketContract, sender, reward)])

claimRewardsOn(L, sender, matchId) ==
    LET market == L.markets[matchId]
        winningOutcome == market.winningOutcome
        userShareAmount == L.userShares[matchId][winningOutcome][sender]
        winningOutcomeShares == outcomeShares(market, winningOutcome)
        reward == Reward(userShareAmount, market.originalPoolSize, winningOutcomeShares)
    IN  IF market.admin = Zero THEN Reverted(L, "MarketNotFound")
        ELSE IF market.status # STATUS_RESOLVED \/ market.winningOutcome = 0
        THEN Reverted(L, "NotResolved")
        ELSE IF L.hasClaimed[matchId][sender] THEN Reverted(L, "AlreadyClaimed")
        ELSE IF userShareAmount = 0 THEN Reverted(L, "NoShares")
        ELSE IF winningOutcomeShares = 0 THEN Reverted(L, "NoShares")
        ELSE IF L.balance[MarketContract] < reward THEN Reverted(L, "TransferFailed")
        ELSE Succeeded([L EXCEPT
                 !.hasClaimed = MarkClaimed(@, matchId, sender),
                 !.userShares[matchId][winningOutcome][sender] = 0,
                 !.balance = Transfer(@, MarketContract, sender, reward)])

\* A call is a record naming the function and its arguments; Apply runs it.
Apply(L, c) ==
    CASE c.op = "createEscrow" ->
             createEscrowOn(L, c.sender, c.matchId, c.player1, c.player2, c.amount)
      [] c.op = "deposit" -> depositOn(L, c.sender, c.matchId, c.approved)
      [] c.op = "resolveWin" -> resolveWinOn(L, c.sender, c.matchId, c.winner)
      [] c.op = "resolveDraw" -> resolveDrawOn(L, c.sender, c.matchId)
      [] c.op = "createMarket" ->
             createMarketOn(L, c.sender, c.matchId, c.player1, c.player2)
      [] c.op = "bet" ->
             betOn(L, c.sender, c.matchId, c.outcome, c.amount, c.approved)
      [] c.op = "resolveMarket" ->
             resolveMarketOn(L, c.sender, c.matchId, c.outcome)
      [] c.op = "claimRewards" -> claimRewardsOn(L, c.sender, c.matchId)

\* ---------------------------------------------------------- specifications
InitLedger ==
    /\ escrows = [m \in MatchIds |-> EmptyEscrow]
    /\ markets = [m \in MatchIds |-> EmptyMarket]
    /\ userShares = [m \in MatchIds |-> [o \in Outcomes |-> [u \in Addr |-> 0]]]
    /\ hasClaimed = [m \in MatchIds |-> [u \in Addr |-> FALSE]]
    /\ paid = [m \in MatchIds |-> 0]
    /\ created = 0
    /\ last = [op |-> "constructor", res |-> "ok"]
    /\ inFlight = NoCall
    /\ EscrowStore = [a \in Addr |-> NoEscrowStore]
    /\ MarketStore = [a \in Addr |-> NoMarketStore]
    /\ OutcomeSharesStore = [a \in Addr |-> NoOutcomeSharesStore]
    /\ ClaimTrackingStore = [a \in Addr |-> NoClaimTrackingStore]

\* --- ChessEscrow alone: every account can fund the largest stake once.
InitEscrow ==
    /\ InitLedger
    /\ chain = "evm"
    /\ coin = [a \in Addr |-> 0]
    /\ balance = [h \in Holders |-> IF h \in Addr THEN MaxStake + 1 ELSE 0]

CreateEscrow ==
    \E sender \in Creators, matchId \in MatchIds,
       player1 \in {Zero, "a1", "a2"}, player2 \in {Zero, "a2"}, amount \in Stakes :
        createEscrow(sender, matchId, player1, player2, amount)

DepositEscrow ==
    \E sender \in Addr, matchId \in MatchIds, approved \in BOOLEAN :
        deposit(sender, matchId, approved)

ResolveWin ==
    \E sender \in Addr, matchId \in MatchIds, winner \in Addr :
        resolveWin(sender, matchId, winner)

ResolveDraw ==
    \E sender \in Addr, matchId \in MatchIds : resolveDraw(sender, matchId)

NextEscrow == CreateEscrow \/ DepositEscrow \/ ResolveWin \/ ResolveDraw

SpecEscrow == InitEscrow /\ [][NextEscrow]_vars

\* --- PredictionMarket alone, one market: a1 holds BettorBalance tokens and
\* a2 two; a3 holds none.
MarketIds == {1}
OutcomeArgs == {0} \cup Outcomes
BetAmounts == 0 .. BettorBalance

InitMarket ==
    /\ InitLedger
    /\ chain = "evm"
    /\ coin = [a \in Addr |-> 0]
    /\ balance = [h \in Holders |->
                    IF h = "a1" THEN BettorBalance
                    ELSE IF h = "a2" THEN 2 ELSE 0]

CreateMarket ==
    \E sender \in Creators, matchId \in MarketIds,
       player1 \in {Zero, "a1"}, player2 \in {Zero, "a2"} :
        createMarket(sender, matchId, player1, player2)

Bet ==
    \E sender \in Addr, matchId \in MarketIds, outcome \in OutcomeArgs,
       amount \in BetAmounts, approved \in BOOLEAN :
        bet(sender, matchId, outcome, amount, approved)

ResolveMarket ==
    \E sender \in Addr, matchId \in MarketIds, winningOutcome \in OutcomeArgs :
        resolveMarket(sender, matchId, winningOutcome)

ClaimRewards ==
    \E sender \in Addr, matchId \in MarketIds : claimRewards(sender, matchId)

NextMarket == CreateMarket \/ Bet \/ ResolveMarket \/ ClaimRewards

SpecMarket == InitMarket /\ [][NextMarket]_vars

\* --- PredictionMarket with two markets sharing the contract's balance: a3
\* administers, a1 (BettorBalance tokens) and a2 (two tokens) bet one token at
\* a time on Player1 or Player2.
InitMarket2 ==
    /\ InitLedger
    /\ chain = "evm"
    /\ coin = [a \in Addr |-> 0]
    /\ balance = [h \in Holders |->
                    IF h = "a1" THEN BettorBalance
                    ELSE IF h = "a2" THEN 2 ELSE 0]

CreateMarket2 ==
    \E matchId \in MatchIds : createMarket("a3", matchId, "a1", "a2")

Bet2 ==
    \E sender \in {"a1", "a2"}, matchId \in MatchIds,
       outcome \in {OUTCOME_PLAYER1, OUTCOME_PLAYER2} :
        bet(sender, matchId, outcome, 1, TRUE)

ResolveMarket2 ==
    \E matchId \in MatchIds, winningOutcome \in {OUTCOME_PLAYER1, OUTCOME_PLAYER2} :
        resolveMarket("a3", matchId, winningOutcome)

ClaimRewards2 ==
    \E sender \in {"a1", "a2"}, matchId \in MatchIds : claimRewards(sender, matchId)

NextMarket2 == CreateMarket2 \/ Bet2 \/ ResolveMarket2 \/ ClaimRewards2

SpecMarket2 == InitMarket2 /\ [][NextMarket2]_vars

\* --- Both contracts over the same token, one match id each and the smallest
\* inputs that reach every branch: a1 and a2 hold one token each.
Init ==
    /\ InitLedger
    /\ chain = "evm"
    /\ coin = [a \in Addr |-> 0]
    /\ balance = [h \in Holders |-> IF h \in {"a1", "a2"} THEN 1 ELSE 0]

CreateEscrow1 ==
    \E sender \in Creators, player1 \in {Zero, "a1"}, player2 \in {Zero, "a2"},
       amount \in {0, 1} :
        createEscrow(sender, 1, player1, player2, amount)

DepositEscrow1 ==
    \E sender \in Addr, approved \in BOOLEAN : deposit(sender, 1, approved)

ResolveWin1 ==
    \E sender \in Addr, winner \in {"a1", "a3"} : resolveWin(sender, 1, winner)

ResolveDraw1 ==
    \E sender \in Addr : resolveDraw(sender, 1)

CreateMarket1 ==
    \E sender \in Creators, player1 \in {Zero, "a1"}, player2 \in {Zero, "a2"} :
        createMarket(sender, 1, player1, player2)

Bet1 ==
    \E sender \in Addr, outcome \in {0, OUTCOME_PLAYER1, OUTCOME_PLAYER2},
       amount \in {0, 1}, approved \in BOOLEAN :
        bet(sender, 1, outcome, amount, approved)

ResolveMarket1 ==
    \E sender \in Addr, winningOutcome \in {0, OUTCOME_PLAYER1, OUTCOME_PLAYER2} :
        resolveMarket(sender, 1, winningOutcome)

ClaimRewards1 ==
    \E sender \in Addr : claimRewards(sender, 1)

Next ==
    \/ CreateEscrow1 \/ DepositEscrow1 \/ ResolveWin1 \/ ResolveDraw1
    \/ CreateMarket1 \/ Bet1 \/ ResolveMarket1 \/ ClaimRewards1

Spec == Init /\ [][Next]_vars

\* --- The escrow product on either chain: the Solidity ChessEscrow or the
\* Move module chess_escrow::escrow, one match id, every account funded for the
\* largest stake once.
InitEscrows ==
    /\ InitLedger
    /\ chain \in {"evm", "aptos"}
    /\ balance = [h \in Holders |->
                    IF chain = "evm" /\ h \in Addr THEN MaxStake + 1 ELSE 0]
    /\ coin = [a \in Addr |-> IF chain = "aptos" THEN MaxStake + 1 ELSE 0]

EvmCreateEscrow ==
    /\ chain = "evm"
    /\ \E sender \in Creators, player1 \in {Zero, "a1", "a2"}, player2 \in {"a2"},
          amount \in {0, MaxStake} :
           createEscrow(sender, 1, player1, player2, amount)

EvmDeposit ==
    /\ chain = "evm"
    /\ \E sender \in Addr, matchId \in MatchIds, approved \in BOOLEAN :
           deposit(sender, matchId, approved)

EvmResolveWin ==
    /\ chain = "evm"
    /\ \E sender \in Addr, matchId \in MatchIds, winner \in {"a1", "a3"} :
           resolveWin(sender, matchId, winner)

EvmResolveDraw ==
    /\ chain = "evm"
    /\ \E sender \in Addr, matchId \in MatchIds : resolveDraw(sender, matchId)

MoveInitializeEscrow ==
    /\ chain = "aptos"
    /\ \E admin \in Creators : escrow_initialize(admin)

MoveCreateEscrow ==
    /\ chain = "aptos"
    /\ \E admin \in Creators, player1 \in {Zero, "a1", "a2"}, player2 \in {"a2"},
          amount \in {0, MaxStake} :
           create_escrow(admin, 1, player1, player2, amount)

MoveDeposit ==
    /\ chain = "aptos"
    /\ \E player \in Addr, admin \in Creators, match_id \in MatchIds :
           escrow_deposit(player, admin, match_id)

MoveResolveWin ==
    /\ chain = "aptos"
    /\ \E admin \in Addr, match_id \in MatchIds, winner \in {"a1", "a3"} :
           resolve_win(admin, match_id, winner)

MoveResolveDraw ==
    /\ chain = "aptos"
    /\ \E admin \in Addr, match_id \in MatchIds : resolve_draw(admin, match_id)

NextEscrows ==
    \/ EvmCreateEscrow \/ EvmDeposit \/ EvmResolveWin \/ EvmResolveDraw
    \/ MoveInitializeEscrow \/ MoveCreateEscrow \/ MoveDeposit
    \/ MoveResolveWin \/ MoveResolveDraw

SpecEscrows == InitEscrows /\ [][NextEscrows]_vars

\* --- The market product on either chain: the Solidity PredictionMarket or
\* the Move module chess_escrow::prediction_market, one market id; a1 holds
\* BettorBalance tokens and a2 one.
InitMarkets ==
    /\ InitLedger
    /\ chain \in {"evm", "aptos"}
    /\ balance = [h \in Holders |->
                    IF chain # "evm" THEN 0
                    ELSE IF h = "a1" THEN BettorBalance
                    ELSE IF h = "a2" THEN 1 ELSE 0]
    /\ coin = [a \in Addr |->
                 IF chain # "aptos" THEN 0
                 ELSE IF a = "a1" THEN BettorBalance
                 ELSE IF a = "a2" THEN 1 ELSE 0]

EvmCreateMarket == chain = "evm" /\ CreateMarket

EvmBet == chain = "evm" /\ Bet

EvmResolveMarket == chain = "evm" /\ ResolveMarket

EvmClaimRewards == chain = "evm" /\ ClaimRewards

\* Only a3 publishes the market resources; calls naming a1's account find none.
MoveInitializeMarket ==
    /\ chain = "aptos"
    /\ market_initialize("a3")

MoveCreateMarket ==
    /\ chain = "aptos"
    /\ \E admin \in Creators, player1 \in {Zero, "a1"}, player2 \in {"a2"} :
           create_market(admin, 1, player1, player2)

MoveBet ==
    /\ chain = "aptos"
    /\ \E user \in Addr, admin \in Creators, match_id \in MarketIds,
          outcome \in OutcomeArgs, amount \in BetAmounts :
           market_bet(user, admin, match_id, outcome, amount)

MoveResolveMarket ==
    /\ chain = "aptos"
    /\ \E admin \in Addr, match_id \in MarketIds, winning_outcome \in OutcomeArgs :
           resolve_market(admin, match_id, winning_outcome)

MoveClaimRewards ==
    /\ chain = "aptos"
    /\ \E user \in Addr, admin \in Creators, match_id \in MarketIds :
           claim_rewards(user, admin, match_id)

NextMarkets ==
    \/ EvmCreateMarket \/ EvmBet \/ EvmResolveMarket \/ EvmClaimRewards
    \/ MoveInitializeMarket \/ MoveCreateMarket \/ MoveBet
    \/ MoveResolveMarket \/ MoveClaimRewards

SpecMarkets == InitMarkets /\ [][NextMarkets]_vars

\* --- Both products on either chain, one match id and the smallest inputs
\* that reach every branch: a1 and a2 hold one token each.  On the Move chain
\* only a3 publishes the resources.
InitProducts ==
    /\ InitLedger
    /\ chain \in {"evm", "aptos"}
    /\ balance = [h \in Holders |->
                    IF chain = "evm" /\ h \in {"a1", "a2"} THEN 1 ELSE 0]
    /\ coin = [a \in Addr |-> IF chain = "aptos" /\ a \in {"a1", "a2"} THEN 1 ELSE 0]

EvmCreateEscrow1 == chain = "evm" /\ CreateEscrow1

EvmDeposit1 == chain = "evm" /\ DepositEscrow1

EvmResolveWin1 == chain = "evm" /\ ResolveWin1

EvmResolveDraw1 == chain = "evm" /\ ResolveDraw1

EvmCreateMarket1 == chain = "evm" /\ CreateMarket1

EvmBet1 == chain = "evm" /\ Bet1

EvmResolveMarket1 == chain = "evm" /\ ResolveMarket1

EvmClaimRewards1 == chain = "evm" /\ ClaimRewards1

MoveInitializeEscrow1 == chain = "aptos" /\ escrow_initialize("a3")

MoveCreateEscrow1 ==
    /\ chain = "aptos"
    /\ \E admin \in Creators : create_escrow(admin, 1, "a1", "a2", 1)

MoveDeposit1 ==
    /\ chain = "aptos"
    /\ \E player \in Addr : escrow_deposit(player, "a3", 1)

MoveResolveWin1 ==
    /\ chain = "aptos"
    /\ \E admin \in Addr, winner \in {"a1", "a3"} : resolve_win(admin, 1, winner)

MoveResolveDraw1 ==
    /\ chain = "aptos"
    /\ \E admin \in Addr : resolve_draw(admin, 1)

MoveInitializeMarket1 == chain = "aptos" /\ market_initialize("a3")

MoveCreateMarket1 ==
    /\ chain = "aptos"
    /\ \E admin \in Creators : create_market(admin, 1, "a1", "a2")

MoveBet1 ==
    /\ chain = "aptos"
    /\ \E user \in Addr, outcome \in {OUTCOME_PLAYER1, OUTCOME_PLAYER2} :
           market_bet(user, "a3", 1, outcome, 1)

MoveResolveMarket1 ==
    /\ chain = "aptos"
    /\ \E admin \in Addr, winning_outcome \in {OUTCOME_PLAYER1, OUTCOME_PLAYER2} :
           resolve_market(admin, 1, winning_outcome)

MoveClaimRewards1 ==
    /\ chain = "aptos"
    /\ \E user \in Addr : claim_rewards(user, "a3", 1)

NextProducts ==
    \/ EvmCreateEscrow1 \/ EvmDeposit1 \/ EvmResolveWin1 \/ EvmResolveDraw1
    \/ EvmCreateMarket1 \/ EvmBet1 \/ EvmResolveMarket1 \/ EvmClaimRewards1
    \/ MoveInitializeEscrow1 \/ MoveCreateEscrow1 \/ MoveDeposit1
    \/ MoveResolveWin1 \/ MoveResolveDraw1
    \/ MoveInitializeMarket1 \/ MoveCreateMarket1 \/ MoveBet1
    \/ MoveResolveMarket1 \/ MoveClaimRewards1

SpecProducts == InitProducts /\ [][NextProducts]_vars

\* --- Two matches side by side on the EVM chain: a3 administers an escrow and
\* a market for each of the two match ids; a1 and a2 hold twice the large
\* stake and deposit or bet it one stake at a time.
InitTwo ==
    /\ InitLedger
    /\ chain = "evm"
    /\ coin = [a \in Addr |-> 0]
    /\ balance = [h \in Holders |-> IF h \in {"a1", "a2"} THEN 2 * MaxStake ELSE 0]

TwoCreateEscrow ==
    \E matchId \in MatchIds : createEscrow("a3", matchId, "a1", "a2", MaxStake)

TwoDeposit ==
    \E sender \in {"a1", "a2"}, matchId \in MatchIds : deposit(sender, matchId, TRUE)

TwoResolveWin ==
    \E matchId \in MatchIds : resolveWin("a3", matchId, "a1")

TwoResolveDraw ==
    \E matchId \in MatchIds : resolveDraw("a3", matchId)

TwoCreateMarket ==
    \E matchId \in MatchIds : createMarket("a3", matchId, "a1", "a2")

TwoBet ==
    \E matchId \in MatchIds :
        \/ bet("a1", matchId, OUTCOME_PLAYER1, MaxStake, TRUE)
        \/ bet("a2", matchId, OUTCOME_PLAYER2, MaxStake, TRUE)

TwoResolveMarket ==
    \E matchId \in MatchIds : resolveMarket("a3", matchId, OUTCOME_PLAYER1)

TwoClaimRewards ==
    \E sender \in {"a1", "a2"}, matchId \in MatchIds : claimRewards(sender, matchId)

NextTwo ==
    \/ TwoCreateEscrow \/ TwoDeposit \/ TwoResolveWin \/ TwoResolveDraw
    \/ TwoCreateMarket \/ TwoBet \/ TwoResolveMarket \/ TwoClaimRewards

SpecTwo == InitTwo /\ [][NextTwo]_vars

\* --- The contracts over a token that calls back: during the transfer of a
\* deposit or of a claim the account that started the call may call deposit
\* or claimRewards again, before the transfer returns. Calls made from inside
\* a transfer run to completion (their own transfers do not call back).
InFlightStakes == {1, BettorBalance}

InitInFlight ==
    /\ InitLedger
    /\ chain = "evm"
    /\ coin = [a \in Addr |-> 0]
    /\ balance = [h \in Holders |->
                     IF h = "a1" THEN BettorBalance + 1
                     ELSE IF h = "a2" THEN BettorBalance ELSE 0]

InFlightCreateEscrow ==
    /\ inFlight = NoCall
    /\ \E amount \in InFlightStakes : createEscrow("a3", 1, "a1", "a2", amount)

InFlightDeposit ==
    /\ inFlight = NoCall
    /\ \E sender \in {"a1", "a2"}, moved \in BOOLEAN :
           depositUntilTransfer(sender, 1, moved)

InFlightCreateMarket ==
    /\ inFlight = NoCall
    /\ createMarket("a3", 1, "a1", "a2")

InFlightBet ==
    /\ inFlight = NoCall
    /\ \E amount \in 1..BettorBalance :
           \/ bet("a1", 1, OUTCOME_PLAYER1, amount, TRUE)
           \/ \E outcome \in {OUTCOME_PLAYER1, OUTCOME_PLAYER2} :
                  bet("a2", 1, outcome, amount, TRUE)

InFlightResolveMarket ==
    /\ inFlight = NoCall
    /\ resolveMarket("a3", 1, OUTCOME_PLAYER1)

InFlightClaimRewards ==
    /\ inFlight = NoCall
    /\ \E sender \in {"a1", "a2"}, moved \in BOOLEAN :
           claimRewardsUntilTransfer(sender, 1, moved)

\* Calls made by the account of the call in flight from inside the transfer.
NestedDeposit ==
    /\ inFlight # NoCall
    /\ deposit(inFlight.sender, 1, TRUE)

NestedClaimRewards ==
    /\ inFlight # NoCall
    /\ claimRewards(inFlight.sender, 1)

NextInFlight ==
    \/ InFlightCreateEscrow \/ InFlightDeposit \/ InFlightCreateMarket
    \/ InFlightBet \/ InFlightResolveMarket \/ InFlightClaimRewards
    \/ NestedDeposit \/ NestedClaimRewards
    \/ depositAfterTransfer \/ claimRewardsAfterTransfer

SpecInFlight == InitInFlight /\ [][NextInFlight]_vars

\* --- Funding of escrows on either chain: a3 or a1 creates escrows for the
\* players a1 (or a2 twice) and a2, the players deposit, the administrator
\* resolves for a1. Every account holds enough for all the stakes it can be
\* asked for. A player whose deposit is possible eventually makes it.
InitFunding ==
    /\ InitLedger
    /\ chain \in {"evm", "aptos"}
    /\ balance = [h \in Holders |->
                    IF chain = "evm" /\ h \in Addr THEN MaxCreates * MaxStake ELSE 0]
    /\ coin = [a \in Addr |-> IF chain = "aptos" THEN MaxCreates * MaxStake ELSE 0]

FundingCreateEscrow ==
    /\ chain = "evm"
    /\ \E sender \in Creators, matchId \in MatchIds, player1 \in {"a1", "a2"},
          amount \in {1, MaxStake} :
           createEscrow(sender, matchId, player1, "a2", amount)

FundingDeposit(sender, matchId) ==
    /\ chain = "evm"
    /\ deposit(sender, matchId, TRUE)

FundingResolveWin ==
    /\ chain = "evm"
    /\ \E matchId \in MatchIds : resolveWin(escrows[matchId].admin, matchId, "a1")

FundingInitialize ==
    /\ chain = "aptos"
    /\ \E admin \in Creators : escrow_initialize(admin)

FundingMoveCreateEscrow ==
    /\ chain = "aptos"
    /\ \E admin \in Creators, match_id \in MatchIds, player1 \in {"a1", "a2"},
          amount \in {1, MaxStake} :
           create_escrow(admin, match_id, player1, "a2", amount)

FundingMoveDeposit(player, admin, match_id) ==
    /\ chain = "aptos"
    /\ escrow_deposit(player, admin, match_id)

FundingMoveResolveWin ==
    /\ chain = "aptos"
    /\ \E admin \in Creators, match_id \in MatchIds : resolve_win(admin, match_id, "a1")

NextFunding ==
    \/ FundingCreateEscrow
    \/ \E sender \in {"a1", "a2"}, matchId \in MatchIds :
           FundingDeposit(sender, matchId)
    \/ FundingResolveWin
    \/ FundingInitialize
    \/ FundingMoveCreateEscrow
    \/ \E player \in {"a1", "a2"}, admin \in Creators, match_id \in MatchIds :
           FundingMoveDeposit(player, admin, match_id)
    \/ FundingMoveResolveWin

SpecFunding ==
    /\ InitFunding
    /\ [][NextFunding]_vars
    /\ \A sender \in {"a1", "a2"}, matchId \in MatchIds :
           /\ WF_vars(FundingDeposit(sender, matchId))
           /\ \A admin \in Creators :
                  WF_vars(FundingMoveDeposit(sender, admin, matchId))

\* ================================================================== claims
Flags(e) == (IF e.deposited1 THEN 1 ELSE 0) + (IF e.deposited2 THEN 1 ELSE 0)

C2_PoolIsSumOfOutcomeTotals ==
    \A m \in MatchIds :
        (marketExists(m) /\ markets[m].status = STATUS_ACTIVE) =>
            markets[m].pool = markets[m].player1Shares + markets[m].player2Shares
                                  + markets[m].drawShares

\* C2 witness: a bet was just refused on an Active market that already holds
\* bets on all three outcomes, one participant holding two units on one outcome.
C2_Witness ==
    /\ last.op = "bet" /\ last.res # "ok"
    /\ \E m \in MatchIds :
           /\ markets[m].status = STATUS_ACTIVE
           /\ markets[m].player1Shares > 0
           /\ markets[m].player2Shares > 0
           /\ markets[m].drawShares > 0
           /\ \E o \in Outcomes, u \in Addr : userShares[m][o][u] >= 2

\* C3: per (market, participant) claimRewards succeeds at most once: a set
\* claim flag is never cleared, a successful claim sets it from false, and a
\* claimRewards by a participant whose flag is set fails AlreadyClaimed and
\* changes nothing.
C3_ClaimAtMostOnce ==
    [][\A m \in MatchIds, u \in Addr :
          /\ hasClaimed[m][u] => hasClaimed'[m][u]
          /\ (last' = [op |-> "claimRewards", res |-> "ok"] /\ claimRewards(u, m))
                 => (~hasClaimed[m][u] /\ hasClaimed'[m][u])
          /\ (hasClaimed[m][u] /\ last'.op = "claimRewards" /\ claimRewards(u, m))
                 => (last'.res = "AlreadyClaimed" /\ UNCHANGED ledger)]_vars

\* C3 witness: a participant who had claimed tried again and was refused.
C3_Witness ==
    /\ last = [op |-> "claimRewards", res |-> "AlreadyClaimed"]
    /\ \E m \in MatchIds, u \in Addr : hasClaimed[m][u] /\ paid[m] > 0

\* C4: for every resolved market the rewards paid out so far never exceed the
\* pool snapshot taken at resolution.
C4_PaidWithinSnapshot ==
    \A m \in MatchIds :
        markets[m].status = STATUS_RESOLVED => paid[m] <= markets[m].originalPoolSize

\* C4 witness: both winners of a resolved market have claimed, truncation left
\* part of the snapshot unpaid, and the contract still holds the other
\* market's pool.
C4_Witness ==
    \E m \in MatchIds, n \in MatchIds :
        /\ m # n
        /\ markets[m].status = STATUS_RESOLVED
        /\ hasClaimed[m]["a1"] /\ hasClaimed[m]["a2"]
        /\ 0 < paid[m] /\ paid[m] < markets[m].originalPoolSize
        /\ markets[n].pool > 0

\* C5: a successful claimRewards pays the caller exactly
\* floor(userAmount * snapshot / winningOutcomeTotal), userAmount being the
\* caller's share on the winning outcome before the call; stakes 1000 and 2000
\* on the winner in a pool of 4500 are paid 1500 and 3000.
C5_RewardIsProportionalFloor ==
    [][/\ \A m \in MatchIds, u \in Addr :
              (last' = [op |-> "claimRewards", res |-> "ok"] /\ claimRewards(u, m)) =>
                  LET w == markets[m].winningOutcome
                      winningTotal == CASE w = OUTCOME_PLAYER1 -> markets[m].player1Shares
                                        [] w = OUTCOME_PLAYER2 -> markets[m].player2Shares
                                        [] OTHER -> markets[m].drawShares
                  IN  balance'[u] - balance[u]
                          = (userShares[m][w][u] * markets[m].originalPoolSize)
                                \div winningTotal
       /\ Reward(1000, 4500, 3000) = 1500
       /\ Reward(2000, 4500, 3000) = 3000]_vars

\* C5 witness: a claim was just paid on a market whose snapshot is not a
\* multiple of the winning total (the quotient was truncated).
C5_Witness ==
    /\ last = [op |-> "claimRewards", res |-> "ok"]
    /\ \E m \in MatchIds :
           /\ paid[m] > 0
           /\ outcomeShares(markets[m], markets[m].winningOutcome) > 1
           /\ markets[m].originalPoolSize
                  % outcomeShares(markets[m], markets[m].winningOutcome) # 0

\* C6 as stated: a successful resolveWin of a fully funded escrow raises the
\* winner's balance by floor(total * 95 / 100) and the administrator's by the
\* rest of total, and removes the record (winner other than the administrator).
C6_WinnerGetsFloor95 ==
    [][\A c \in Addr, m \in MatchIds, w \in Addr :
          (resolveWin(c, m, w) /\ last'.res = "ok" /\ w # escrows[m].admin) =>
              LET total == escrows[m].total
                  admin == escrows[m].admin
              IN  /\ total = 2 * escrows[m].amount
                  /\ balance'[w] = balance[w] + (total * 95) \div 100
                  /\ balance'[admin] = balance[admin] + (total - (total * 95) \div 100)
                  /\ escrows'[m].admin = Zero]_vars

\* C6 amended: a successful resolveWin of a fully funded escrow
\* (total = 2 * amount) pays the winner total - floor(total * 5 / 100) and the
\* administrator floor(total * 5 / 100) (one account receives both when the
\* winner is the administrator), nobody else is paid, and the record is gone.
C6_WinnerGetsTotalMinusFee ==
    [][\A c \in Addr, m \in MatchIds, w \in Addr :
          (resolveWin(c, m, w) /\ last'.res = "ok") =>
              LET total == escrows[m].total
                  admin == escrows[m].admin
                  fee5 == (total * 5) \div 100
              IN  /\ total = 2 * escrows[m].amount
                  /\ \A a \in Addr :
                         balance'[a] - balance[a]
                             = (IF a = w THEN total - fee5 ELSE 0)
                                   + (IF a = admin THEN fee5 ELSE 0)
                  /\ escrows'[m].admin = Zero]_vars

\* C6 witness: resolveWin has just paid out an escrow of the large stake.
C6_Witness ==
    /\ last = [op |-> "resolveWin", res |-> "ok"]
    /\ \E a \in Addr : balance[a] >= 2 * MaxStake

RECURSIVE SumTotals(_)
SumTotals(ids) ==
    IF ids = {} THEN 0
    ELSE LET m == CHOOSE x \in ids : TRUE
         IN  escrows[m].total + SumTotals(ids \ {m})

\* Tokens the escrow contract holds beyond the deposits of existing escrows.
Unowned == balance[EscrowContract] - SumTotals(MatchIds)

\* C7 as stated: a successful resolveWin computes fee = floor(total * 5 / 100)
\* and payout = total - fee, pays payout to the winner and fee to the
\* administrator, so the contract gives up exactly total, and its balance is 0
\* when no other escrow holds deposits.
C7_ResolveWinLeavesNothing ==
    [][\A c \in Addr, m \in MatchIds, w \in Addr :
          (resolveWin(c, m, w) /\ last'.res = "ok") =>
              LET total == escrows[m].total
                  admin == escrows[m].admin
                  fee5 == (total * 5) \div 100
                  payout == total - fee5
              IN  /\ fee5 + payout = total
                  /\ \A a \in Addr :
                         balance'[a] - balance[a]
                             = (IF a = w THEN payout ELSE 0)
                                   + (IF a = admin THEN fee5 ELSE 0)
                  /\ balance'[EscrowContract] = balance[EscrowContract] - total
                  /\ (\A n \in MatchIds \ {m} : escrows[n].total = 0)
                         => balance'[EscrowContract] = 0]_vars

C9_DrawLeavesZeroBalance ==
    (/\ last = [op |-> "resolveDraw", res |-> "ok"]
     /\ \A m \in MatchIds : escrows[m].total = 0)
        => balance[EscrowContract] = 0

\* C10 as stated: resolveWin, resolveDraw and resolveMarket by a caller other
\* than the existing record's admin fail NotAdmin and change nothing.
C10_NonAdminResolveFailsNotAdmin ==
    [][/\ \A c \in Addr, m \in MatchIds :
              (escrowExists(m) /\ c # escrows[m].admin) =>
                  /\ \A w \in Addr :
                         resolveWin(c, m, w)
                             => (last'.res = "NotAdmin" /\ UNCHANGED ledger)
                  /\ resolveDraw(c, m)
                         => (last'.res = "NotAdmin" /\ UNCHANGED ledger)
       /\ \A c \in Addr, m \in MatchIds, o \in OutcomeArgs :
              (marketExists(m) /\ c # markets[m].admin /\ resolveMarket(c, m, o))
                  => (last'.res = "NotAdmin" /\ UNCHANGED ledger)]_vars

\* C10 amended: resolveWin, resolveDraw and resolveMarket by a caller other
\* than the existing record's admin never succeed and change nothing: they
\* fail NotAdmin, except that resolveMarket with an outcome outside
\* {Player1, Player2, Draw} fails InvalidOutcome, which is checked first.
C10_NonAdminResolveFails ==
    [][/\ \A c \in Addr, m \in MatchIds :
              (escrowExists(m) /\ c # escrows[m].admin) =>
                  /\ \A w \in Addr :
                         resolveWin(c, m, w)
                             => (last'.res = "NotAdmin" /\ UNCHANGED ledger)
                  /\ resolveDraw(c, m)
                         => (last'.res = "NotAdmin" /\ UNCHANGED ledger)
       /\ \A c \in Addr, m \in MatchIds, o \in OutcomeArgs :
              (marketExists(m) /\ c # markets[m].admin /\ resolveMarket(c, m, o))
                  => /\ last'.res = (IF o \in Outcomes THEN "NotAdmin"
                                     ELSE "InvalidOutcome")
                     /\ UNCHANGED ledger]_vars

\* C10 witness: a resolve by a non-admin was just refused while an escrow
\* holding a deposit and a market holding a bet exist.
C10_Witness ==
    /\ last.res = "NotAdmin"
    /\ last.op \in {"resolveWin", "resolveDraw", "resolveMarket"}
    /\ escrows[1].total > 0
    /\ markets[1].status = STATUS_ACTIVE /\ markets[1].pool > 0

\* Whether account a's EscrowStore holds a record for match_id.
MoveEscrowExists(a, match_id) ==
    EscrowStore[a].exists /\ match_id \in DOMAIN EscrowStore[a].escrows

\* C11: a deposit by player1 (player2) of an escrow whose deposited1
\* (deposited2) flag is set fails AlreadyDeposited and changes nothing; a
\* successful deposit finds the caller's flag unset, sets it and takes the
\* stake once; a set flag stays set as long as the record exists.  The Move
\* module refuses the second deposit in the same way (EALREADY_DEPOSITED).
C11_SecondDepositFails ==
    [][\A c \in Addr, m \in MatchIds :
          LET e == escrows[m]
          IN  /\ (/\ last'.op = "deposit"
                  /\ escrowExists(m)
                  /\ \/ (c = e.player1 /\ e.deposited1)
                     \/ (c = e.player2 /\ e.deposited2)
                  /\ \E approved \in BOOLEAN : deposit(c, m, approved))
                     => (last'.res = "AlreadyDeposited" /\ UNCHANGED ledger)
              /\ (/\ last' = [op |-> "deposit", res |-> "ok"]
                  /\ deposit(c, m, TRUE))
                     => /\ balance'[c] = balance[c] - e.amount
                        /\ escrows'[m].total = e.total + e.amount
                        /\ \/ (c = e.player1 /\ ~e.deposited1 /\ escrows'[m].deposited1
                                  /\ escrows'[m].deposited2 = e.deposited2)
                           \/ (c = e.player2 /\ ~e.deposited2 /\ escrows'[m].deposited2
                                  /\ escrows'[m].deposited1 = e.deposited1)
              /\ (escrowExists(m) /\ escrows'[m].admin # Zero)
                     => /\ e.deposited1 => escrows'[m].deposited1
                        /\ e.deposited2 => escrows'[m].deposited2
              /\ \A a \in Addr :
                     (/\ last'.op = "escrow::deposit"
                      /\ MoveEscrowExists(a, m)
                      /\ LET x == EscrowStore[a].escrows[m]
                         IN  \/ (c = x.player1 /\ x.deposited1)
                             \/ (c = x.player2 /\ x.deposited2)
                      /\ escrow_deposit(c, a, m))
                         => (last'.res = "EALREADY_DEPOSITED" /\ UNCHANGED aptos)]_vars

\* C11 witness: a player who had deposited the large stake tried again and
\* was refused, the other player not having deposited.
C11_Witness ==
    /\ last = [op |-> "deposit", res |-> "AlreadyDeposited"]
    /\ \E m \in MatchIds :
           /\ escrows[m].deposited1 # escrows[m].deposited2
           /\ escrows[m].total = MaxStake
           /\ balance[EscrowContract] = MaxStake

\* C12: resolveWin and resolveDraw by the administrator of an existing escrow
\* with a deposit flag unset fail NotReady and change nothing (on either
\* chain); a resolve that succeeds found both flags set.
C12_UnreadyResolveFails ==
    [][\A c \in Addr, m \in MatchIds :
          /\ (/\ last'.op \in {"resolveWin", "resolveDraw"}
              /\ escrowExists(m) /\ c = escrows[m].admin
              /\ ~(escrows[m].deposited1 /\ escrows[m].deposited2)
              /\ \/ resolveDraw(c, m)
                 \/ \E w \in Addr : resolveWin(c, m, w))
                 => (last'.res = "EscrowNotReady" /\ UNCHANGED ledger)
          /\ (/\ last'.op \in {"resolveWin", "resolveDraw"} /\ last'.res = "ok"
              /\ \/ resolveDraw(c, m)
                 \/ \E w \in Addr : resolveWin(c, m, w))
                 => (escrows[m].deposited1 /\ escrows[m].deposited2)
          /\ (/\ last'.op \in {"resolve_win", "resolve_draw"}
              /\ MoveEscrowExists(c, m)
              /\ ~(EscrowStore[c].escrows[m].deposited1
                      /\ EscrowStore[c].escrows[m].deposited2)
              /\ \/ resolve_draw(c, m)
                 \/ \E w \in Addr : resolve_win(c, m, w))
                 => (last'.res = "EESCROW_NOT_READY" /\ UNCHANGED aptos)
          /\ (/\ last'.op \in {"resolve_win", "resolve_draw"} /\ last'.res = "ok"
              /\ \/ resolve_draw(c, m)
                 \/ \E w \in Addr : resolve_win(c, m, w))
                 => (EscrowStore[c].escrows[m].deposited1
                        /\ EscrowStore[c].escrows[m].deposited2)]_vars

\* C12 witness: the administrator's resolve was just refused on an escrow
\* holding one player's deposit of the large stake.
C12_Witness ==
    /\ last.res = "EscrowNotReady"
    /\ \E m \in MatchIds :
           /\ escrows[m].deposited1 # escrows[m].deposited2
           /\ escrows[m].total = MaxStake
           /\ balance[EscrowContract] = MaxStake

\* C13 as stated: a deposit on an existing escrow by a caller who is neither
\* player1 nor player2 fails NotFound and changes nothing, on either chain.
C13_OutsiderDepositFailsNotFound ==
    [][\A c \in Addr, m \in MatchIds :
          /\ (/\ last'.op = "deposit"
              /\ escrowExists(m)
              /\ c # escrows[m].player1 /\ c # escrows[m].player2
              /\ \E approved \in BOOLEAN : deposit(c, m, approved))
                 => (last'.res = "EscrowNotFound" /\ UNCHANGED ledger)
          /\ \A a \in Addr :
                 (/\ last'.op = "escrow::deposit"
                  /\ MoveEscrowExists(a, m)
                  /\ c # EscrowStore[a].escrows[m].player1
                  /\ c # EscrowStore[a].escrows[m].player2
                  /\ escrow_deposit(c, a, m))
                     => (last'.res = "EESCROW_NOT_FOUND" /\ UNCHANGED aptos)]_vars

\* C13, the part the Solidity contract satisfies: on the EVM chain the
\* outsider's deposit fails EscrowNotFound and changes nothing; on either chain
\* it moves no funds and leaves the record unchanged.
C13_OutsiderDepositMovesNothing ==
    [][\A c \in Addr, m \in MatchIds :
          /\ (/\ last'.op = "deposit"
              /\ escrowExists(m)
              /\ c # escrows[m].player1 /\ c # escrows[m].player2
              /\ \E approved \in BOOLEAN : deposit(c, m, approved))
                 => (last'.res = "EscrowNotFound" /\ UNCHANGED ledger)
          /\ \A a \in Addr :
                 (/\ last'.op = "escrow::deposit"
                  /\ MoveEscrowExists(a, m)
                  /\ c # EscrowStore[a].escrows[m].player1
                  /\ c # EscrowStore[a].escrows[m].player2
                  /\ escrow_deposit(c, a, m))
                     => UNCHANGED aptos]_vars

\* C13 witness: an outsider's deposit on a funded Move escrow has just
\* returned without aborting.
C13_Witness ==
    /\ last = [op |-> "escrow::deposit", res |-> "ok"]
    /\ \E a \in Addr :
           /\ MoveEscrowExists(a, 1)
           /\ EscrowStore[a].escrows[1].total = 0
           /\ EscrowStore[a].escrows[1].amount = MaxStake

\* C14: a successful resolveWin or resolveDraw removes the record; while no
\* record exists for a match id every deposit, resolveWin and resolveDraw on
\* it fails NotFound and changes nothing, and only a create brings a record
\* into existence (on either chain), so a created escrow is resolved at most
\* once.
C14_ResolvedEscrowIsGone ==
    [][\A c \in Addr, m \in MatchIds :
          /\ (/\ last'.op \in {"resolveWin", "resolveDraw"} /\ last'.res = "ok"
              /\ \/ resolveDraw(c, m)
                 \/ \E w \in Addr : resolveWin(c, m, w))
                 => (escrowExists(m) /\ escrows'[m].admin = Zero)
          /\ (/\ last'.op \in {"deposit", "resolveWin", "resolveDraw"}
              /\ ~escrowExists(m)
              /\ \/ \E approved \in BOOLEAN : deposit(c, m, approved)
                 \/ resolveDraw(c, m)
                 \/ \E w \in Addr : resolveWin(c, m, w))
                 => (last'.res = "EscrowNotFound" /\ UNCHANGED ledger)
          /\ (~escrowExists(m) /\ escrows'[m].admin # Zero)
                 => last' = [op |-> "createEscrow", res |-> "ok"]
          /\ (/\ last'.op \in {"resolve_win", "resolve_draw"} /\ last'.res = "ok"
              /\ \/ resolve_draw(c, m)
                 \/ \E w \in Addr : resolve_win(c, m, w))
                 => (/\ MoveEscrowExists(c, m)
                     /\ EscrowStore'[c].exists
                     /\ m \notin DOMAIN EscrowStore'[c].escrows)
          /\ (/\ last'.op \in {"escrow::deposit", "resolve_win", "resolve_draw"}
              /\ EscrowStore[c].exists /\ ~MoveEscrowExists(c, m)
              /\ \/ \E player \in Addr : escrow_deposit(player, c, m)
                 \/ resolve_draw(c, m)
                 \/ \E w \in Addr : resolve_win(c, m, w))
                 => (last'.res = "EESCROW_NOT_FOUND" /\ UNCHANGED aptos)
          /\ (~MoveEscrowExists(c, m) /\ m \in DOMAIN EscrowStore'[c].escrows)
                 => last' = [op |-> "create_escrow", res |-> "ok"]]_vars

\* C14 witness: after a funded escrow was resolved and paid out in full, a
\* call on its match id has just failed NotFound.
C14_Witness ==
    /\ last.res = "EscrowNotFound"
    /\ created = 1 /\ ~escrowExists(1)
    /\ balance[EscrowContract] = 0
    /\ \E a \in Addr : balance[a] > MaxStake + 1

\* The same on the Move chain.
C14_MoveWitness ==
    /\ last.res = "EESCROW_NOT_FOUND"
    /\ created = 1 /\ \A a \in Addr : ~MoveEscrowExists(a, 1)
    /\ \E a \in Addr : coin[a] > MaxStake + 1

\* C15: a create on a match id without a record (in particular one whose
\* escrow was resolved) with non-zero players and a positive stake succeeds,
\* whoever calls it, and the record it yields holds exactly the caller and the
\* arguments, total 0 and both flags false (on either chain; the Move module
\* accepts every argument).
C15_CreateAfterResolveIsFresh ==
    [][last'.op \in {"createEscrow", "create_escrow"} =>
       \A c \in Creators, m \in MatchIds, p1 \in {Zero, "a1", "a2"},
         p2 \in {Zero, "a2"}, amt \in Stakes :
          /\ (/\ last'.op = "createEscrow"
              /\ ~escrowExists(m)
              /\ p1 # Zero /\ p2 # Zero /\ amt > 0
              /\ createEscrow(c, m, p1, p2, amt))
                 => /\ last'.res = "ok"
                    /\ escrows'[m] = [admin |-> c, player1 |-> p1, player2 |-> p2,
                                      amount |-> amt, total |-> 0,
                                      deposited1 |-> FALSE, deposited2 |-> FALSE]
                    /\ balance' = balance
          /\ (/\ last'.op = "create_escrow"
              /\ EscrowStore[c].exists /\ ~MoveEscrowExists(c, m)
              /\ create_escrow(c, m, p1, p2, amt))
                 => /\ last'.res = "ok"
                    /\ EscrowStore'[c].escrows[m]
                           = [admin |-> c, player1 |-> p1, player2 |-> p2,
                              amount |-> amt, total |-> 0,
                              deposited1 |-> FALSE, deposited2 |-> FALSE]
                    /\ coin' = coin]_vars

\* C15 witness: a match id whose funded escrow was resolved and paid out has
\* just been created again, by the other creator.
C15_Witness ==
    /\ last = [op |-> "createEscrow", res |-> "ok"]
    /\ created = 2
    /\ escrows[1].admin = "a3" /\ escrows[1].total = 0
    /\ ~escrows[1].deposited1 /\ ~escrows[1].deposited2
    /\ balance["a1"] > MaxStake + 1

\* Whether account a's MarketStore holds a market for match_id.
MoveMarketExists(a, match_id) ==
    MarketStore[a].exists /\ match_id \in DOMAIN MarketStore[a].markets

\* C16: in both products and on either chain, a create on a match id whose
\* record exists fails AlreadyExists for every caller and every argument
\* combination and changes nothing.  (In the Move modules the record is keyed
\* by the caller's account and the match id.)
C16_CreateOnExistingFails ==
    [][last'.op \in {"createEscrow", "createMarket", "create_escrow", "create_market"} =>
       \A c \in Addr, m \in MatchIds, p1 \in {Zero, "a1"}, p2 \in {Zero, "a2"} :
          /\ (/\ last'.op = "createEscrow" /\ escrowExists(m)
              /\ \E amt \in {0, 1} : createEscrow(c, m, p1, p2, amt))
                 => (last'.res = "EscrowAlreadyExists" /\ UNCHANGED ledger)
          /\ (/\ last'.op = "createMarket" /\ marketExists(m)
              /\ createMarket(c, m, p1, p2))
                 => (last'.res = "MarketAlreadyExists" /\ UNCHANGED ledger)
          /\ (/\ last'.op = "create_escrow" /\ MoveEscrowExists(c, m)
              /\ \E amt \in {0, 1} : create_escrow(c, m, p1, p2, amt))
                 => (last'.res = "EESCROW_ALREADY_EXISTS" /\ UNCHANGED aptos)
          /\ (/\ last'.op = "create_market" /\ MoveMarketExists(c, m)
              /\ create_market(c, m, p1, p2))
                 => (last'.res = "EMARKET_ALREADY_EXISTS" /\ UNCHANGED aptos)]_vars

\* C16 witness: a create was just refused on a match id whose escrow holds a
\* deposit and whose market holds a bet.
C16_Witness ==
    /\ last.res \in {"EscrowAlreadyExists", "MarketAlreadyExists"}
    /\ escrows[1].total > 0
    /\ markets[1].pool > 0

\* The same on the Move chain.
C16_MoveWitness ==
    /\ last.res \in {"EESCROW_ALREADY_EXISTS", "EMARKET_ALREADY_EXISTS"}
    /\ MoveEscrowExists("a3", 1) /\ EscrowStore["a3"].escrows[1].total > 0
    /\ MoveMarketExists("a3", 1) /\ MarketStore["a3"].markets[1].pool > 0

\* C17: once resolve has succeeded on a market (its winning outcome is set),
\* every bet on it with a valid outcome and a non-zero amount, by any caller,
\* fails AlreadyResolved and changes nothing (on either chain).
C17_BetAfterResolveFails ==
    [][\A m \in MarketIds :
          /\ (/\ last'.op = "bet"
              /\ marketExists(m) /\ markets[m].winningOutcome # 0)
                 => \/ (last'.res = "MarketAlreadyResolved" /\ UNCHANGED ledger)
                    \/ ~ \E c \in Addr, o \in Outcomes, amt \in BetAmounts \ {0},
                           approved \in BOOLEAN : bet(c, m, o, amt, approved)
          /\ \A a \in Creators :
                 (/\ last'.op = "prediction_market::bet"
                  /\ MoveMarketExists(a, m)
                  /\ MarketStore[a].markets[m].winning_outcome # 0)
                     => \/ (last'.res = "EMARKET_ALREADY_RESOLVED" /\ UNCHANGED aptos)
                        \/ ~ \E c \in Addr, o \in Outcomes, amt \in BetAmounts \ {0} :
                               market_bet(c, a, m, o, amt)]_vars

\* C17 witness: a bet by an account that holds tokens was just refused on a
\* resolved market that had taken bets.
C17_Witness ==
    /\ last = [op |-> "bet", res |-> "MarketAlreadyResolved"]
    /\ markets[1].status = STATUS_RESOLVED
    /\ markets[1].originalPoolSize > 0
    /\ \A u \in {"a1", "a2"} : balance[u] > 0

\* The same on the Move chain.
C17_MoveWitness ==
    /\ last = [op |-> "prediction_market::bet", res |-> "EMARKET_ALREADY_RESOLVED"]
    /\ MoveMarketExists("a3", 1)
    /\ MarketStore["a3"].markets[1].original_pool_size > 0
    /\ \A u \in {"a1", "a2"} : coin[u] > 0

\* C18: a market's status only moves from nothing to Active (create) and from
\* Active to Resolved; once it is Resolved no step changes its status, winning
\* outcome, outcome totals or pool snapshot, and a further resolve by its
\* administrator with any of the three outcomes fails AlreadyResolved and
\* changes nothing (on either chain).
C18_ResolvedIsTerminal ==
    [][\A m \in MarketIds :
          /\ markets'[m].status # markets[m].status
                 => \/ markets[m].status = 0 /\ markets'[m].status = STATUS_ACTIVE
                    \/ markets[m].status = STATUS_ACTIVE
                           /\ markets'[m].status = STATUS_RESOLVED
          /\ markets[m].status = STATUS_RESOLVED
                 => /\ markets'[m].status = STATUS_RESOLVED
                    /\ markets'[m].winningOutcome = markets[m].winningOutcome
                    /\ markets'[m].player1Shares = markets[m].player1Shares
                    /\ markets'[m].player2Shares = markets[m].player2Shares
                    /\ markets'[m].drawShares = markets[m].drawShares
                    /\ markets'[m].originalPoolSize = markets[m].originalPoolSize
          /\ (last'.op = "resolveMarket" /\ markets[m].status = STATUS_RESOLVED)
                 => \/ (last'.res = "MarketAlreadyResolved" /\ UNCHANGED ledger)
                    \/ ~ \E o \in Outcomes : resolveMarket(markets[m].admin, m, o)
          /\ \A a \in Creators :
                 MoveMarketExists(a, m) =>
                     LET x == MarketStore[a].markets[m]
                         y == MarketStore'[a].markets[m]
                     IN  /\ MoveMarketExists(a, m)'
                         /\ x.status # y.status
                                => (x.status = STATUS_ACTIVE /\ y.status = STATUS_RESOLVED)
                         /\ x.status = STATUS_RESOLVED
                                => /\ y.status = STATUS_RESOLVED
                                   /\ y.winning_outcome = x.winning_outcome
                                   /\ y.player1_shares = x.player1_shares
                                   /\ y.player2_shares = x.player2_shares
                                   /\ y.draw_shares = x.draw_shares
                                   /\ y.original_pool_size = x.original_pool_size
                         /\ (last'.op = "resolve_market" /\ x.status = STATUS_RESOLVED)
                                => \/ (last'.res = "EMARKET_ALREADY_RESOLVED"
                                          /\ UNCHANGED aptos)
                                   \/ ~ \E o \in Outcomes : resolve_market(a, m, o)]_vars

\* C18 witness: the administrator's second resolve was just refused on a
\* market that took bets, was resolved for Player1 and has paid a reward.
C18_Witness ==
    /\ last = [op |-> "resolveMarket", res |-> "MarketAlreadyResolved"]
    /\ markets[1].status = STATUS_RESOLVED
    /\ markets[1].winningOutcome = OUTCOME_PLAYER1
    /\ paid[1] > 0

\* The same on the Move chain: the pool has paid a reward.
C18_MoveWitness ==
    /\ last = [op |-> "resolve_market", res |-> "EMARKET_ALREADY_RESOLVED"]
    /\ MoveMarketExists("a3", 1)
    /\ MarketStore["a3"].markets[1].pool < MarketStore["a3"].markets[1].original_pool_size

\* userShares[m][o][u] summed over a set of <<outcome, user>> pairs: what the
\* successful bets on market m have credited to the bettors.
RECURSIVE SumShares(_, _)
SumShares(m, pairs) ==
    IF pairs = {} THEN 0
    ELSE LET p == CHOOSE x \in pairs : TRUE
         IN  userShares[m][p[1]][p[2]] + SumShares(m, pairs \ {p})

RECURSIVE MoveSumShares(_, _, _)
MoveSumShares(a, match_id, pairs) ==
    IF pairs = {} THEN 0
    ELSE LET p == CHOOSE x \in pairs : TRUE
         IN  MoveSharesOf(a, match_id, p[1], p[2])
                 + MoveSumShares(a, match_id, pairs \ {p})

\* C19: a successful resolve stores in the snapshot the pool of that instant,
\* which is the sum of the amounts of all successful bets placed on the market
\* before (the bettors' credited shares; on the EVM chain also the tokens the
\* market contract has received), and leaves the pool itself as it was.
C19_SnapshotIsSumOfBets ==
    [][/\ last' = [op |-> "resolveMarket", res |-> "ok"]
           => \A m \in MarketIds :
                  markets'[m] # markets[m]
                      => /\ markets'[m].originalPoolSize = markets[m].pool
                         /\ markets'[m].pool = markets[m].pool
                         /\ markets[m].pool = SumShares(m, Outcomes \X Addr)
                         /\ markets[m].pool = balance[MarketContract]
       /\ last' = [op |-> "resolve_market", res |-> "ok"]
           => \A a \in Creators, m \in MarketIds :
                  (MoveMarketExists(a, m)
                      /\ MarketStore'[a].markets[m] # MarketStore[a].markets[m])
                      => LET x == MarketStore[a].markets[m]
                             y == MarketStore'[a].markets[m]
                         IN  /\ y.original_pool_size = x.pool
                             /\ y.pool = x.pool
                             /\ x.pool = MoveSumShares(a, m, Outcomes \X Addr)]_vars

\* C19 witness: a market on which both bettors have bet, on different
\* outcomes, has just been resolved with a snapshot of all their tokens.
C19_Witness ==
    /\ last = [op |-> "resolveMarket", res |-> "ok"]
    /\ markets[1].originalPoolSize = BettorBalance + 1
    /\ markets[1].player1Shares > 0
    /\ markets[1].drawShares > 0
    /\ balance["a1"] = 0 /\ balance["a2"] = 0

\* The same on the Move chain.
C19_MoveWitness ==
    /\ last = [op |-> "resolve_market", res |-> "ok"]
    /\ MoveMarketExists("a3", 1)
    /\ MarketStore["a3"].markets[1].original_pool_size = BettorBalance + 1
    /\ MarketStore["a3"].markets[1].player1_shares > 0
    /\ MarketStore["a3"].markets[1].draw_shares > 0

\* C20 as stated: the administrator's resolve of an Active market with zero
\* bets succeeds, and afterwards every claimRewards on that market, by any
\* caller, fails NoShares and changes nothing (on either chain).
C20_ZeroBetClaimFailsNoShares ==
    [][\A m \in MarketIds :
          /\ (/\ last'.op = "resolveMarket"
              /\ markets[m].status = STATUS_ACTIVE /\ markets[m].pool = 0)
                 => \/ last'.res = "ok"
                    \/ ~ \E o \in Outcomes : resolveMarket(markets[m].admin, m, o)
          /\ (/\ last'.op = "claimRewards"
              /\ markets[m].status = STATUS_RESOLVED
              /\ markets[m].originalPoolSize = 0)
                 => \/ (last'.res = "NoShares" /\ UNCHANGED ledger)
                    \/ ~ \E c \in Addr : claimRewards(c, m)
          /\ \A a \in Creators :
                 MoveMarketExists(a, m) =>
                     LET market == MarketStore[a].markets[m]
                     IN  /\ (/\ last'.op = "resolve_market"
                             /\ market.status = STATUS_ACTIVE /\ market.pool = 0)
                                => \/ last'.res = "ok"
                                   \/ ~ \E o \in Outcomes : resolve_market(a, m, o)
                         /\ (/\ last'.op = "claim_rewards"
                             /\ market.status = STATUS_RESOLVED
                             /\ market.original_pool_size = 0)
                                => \/ (last'.res = "ENO_SHARES" /\ UNCHANGED aptos)
                                   \/ ~ \E c \in Addr : claim_rewards(c, a, m)]_vars

\* C20, the part both contracts satisfy: the zero-bet resolve succeeds, and
\* afterwards every claimRewards fails and changes nothing; on the EVM chain
\* the failure is NoShares.
C20_ZeroBetClaimMovesNothing ==
    [][\A m \in MarketIds :
          /\ (/\ last'.op = "resolveMarket"
              /\ markets[m].status = STATUS_ACTIVE /\ markets[m].pool = 0)
                 => \/ last'.res = "ok"
                    \/ ~ \E o \in Outcomes : resolveMarket(markets[m].admin, m, o)
          /\ (/\ last'.op = "claimRewards"
              /\ markets[m].status = STATUS_RESOLVED
              /\ markets[m].originalPoolSize = 0)
                 => \/ (last'.res = "NoShares" /\ UNCHANGED ledger)
                    \/ ~ \E c \in Addr : claimRewards(c, m)
          /\ \A a \in Creators :
                 MoveMarketExists(a, m) =>
                     LET market == MarketStore[a].markets[m]
                     IN  /\ (/\ last'.op = "resolve_market"
                             /\ market.status = STATUS_ACTIVE /\ market.pool = 0)
                                => \/ last'.res = "ok"
                                   \/ ~ \E o \in Outcomes : resolve_market(a, m, o)
                         /\ (/\ last'.op = "claim_rewards"
                             /\ market.status = STATUS_RESOLVED
                             /\ market.original_pool_size = 0)
                                => \/ (last'.res # "ok" /\ UNCHANGED aptos)
                                   \/ ~ \E c \in Addr : claim_rewards(c, a, m)]_vars

\* C20 witness: a claim on a Move market that was resolved with zero bets has
\* just aborted with EMARKET_NOT_FOUND.
C20_Witness ==
    /\ last = [op |-> "claim_rewards", res |-> "EMARKET_NOT_FOUND"]
    /\ MoveMarketExists("a3", 1)
    /\ MarketStore["a3"].markets[1].status = STATUS_RESOLVED
    /\ MarketStore["a3"].markets[1].original_pool_size = 0

\* The EVM case: the claim on a zero-bet resolved market failed NoShares.
C20_EvmWitness ==
    /\ last = [op |-> "claimRewards", res |-> "NoShares"]
    /\ markets[1].status = STATUS_RESOLVED
    /\ markets[1].originalPoolSize = 0

\* C21 as stated: on a resolved market, claimRewards by a caller who holds no
\* stake on the winning outcome and has not claimed fails NoShares and changes
\* nothing, whatever the others staked; and tokens only ever reach a bettor
\* through a claim made while holding stake on the winning outcome (on either
\* chain).
C21_LoserClaimFailsNoShares ==
    [][\A m \in MarketIds :
          /\ (/\ last'.op = "claimRewards"
              /\ markets[m].status = STATUS_RESOLVED
              /\ markets[m].winningOutcome # 0)
                 => \A c \in Addr :
                        (/\ userShares[m][markets[m].winningOutcome][c] = 0
                         /\ ~hasClaimed[m][c])
                            => \/ (last'.res = "NoShares" /\ UNCHANGED ledger)
                               \/ ~claimRewards(c, m)
          /\ \A c \in Addr :
                 balance'[c] > balance[c]
                     => /\ last' = [op |-> "claimRewards", res |-> "ok"]
                        /\ markets[m].status = STATUS_RESOLVED
                        /\ userShares[m][markets[m].winningOutcome][c] > 0
          /\ \A a \in Creators :
                 /\ (/\ last'.op = "claim_rewards"
                     /\ MoveMarketExists(a, m)
                     /\ MarketStore[a].markets[m].status = STATUS_RESOLVED)
                        => \A c \in Addr :
                               (/\ MoveSharesOf(a, m, MarketStore[a].markets[m].winning_outcome, c) = 0
                                /\ ~MoveHasClaimed(a, m, c))
                                   => \/ (last'.res = "ENO_SHARES" /\ UNCHANGED aptos)
                                      \/ ~claim_rewards(c, a, m)
                 /\ \A c \in Addr :
                        (coin'[c] > coin[c] /\ MarketStore[a].exists)
                            => /\ last' = [op |-> "claim_rewards", res |-> "ok"]
                               /\ MoveMarketExists(a, m)
                               /\ MoveSharesOf(a, m, MarketStore[a].markets[m].winning_outcome, c) > 0]_vars

\* C21, the part both contracts satisfy: the loser's claim fails and changes
\* nothing (with NoShares on the EVM chain), and tokens only reach a bettor
\* through a claim made while holding stake on the winning outcome.
C21_LoserGetsNothing ==
    [][\A m \in MarketIds :
          /\ (/\ last'.op = "claimRewards"
              /\ markets[m].status = STATUS_RESOLVED
              /\ markets[m].winningOutcome # 0)
                 => \A c \in Addr :
                        (/\ userShares[m][markets[m].winningOutcome][c] = 0
                         /\ ~hasClaimed[m][c])
                            => \/ (last'.res = "NoShares" /\ UNCHANGED ledger)
                               \/ ~claimRewards(c, m)
          /\ \A c \in Addr :
                 balance'[c] > balance[c]
                     => /\ last' = [op |-> "claimRewards", res |-> "ok"]
                        /\ markets[m].status = STATUS_RESOLVED
                        /\ userShares[m][markets[m].winningOutcome][c] > 0
          /\ \A a \in Creators :
                 /\ (/\ last'.op = "claim_rewards"
                     /\ MoveMarketExists(a, m)
                     /\ MarketStore[a].markets[m].status = STATUS_RESOLVED)
                        => \A c \in Addr :
                               (/\ MoveSharesOf(a, m, MarketStore[a].markets[m].winning_outcome, c) = 0
                                /\ ~MoveHasClaimed(a, m, c))
                                   => \/ (last'.res # "ok" /\ UNCHANGED aptos)
                                      \/ ~claim_rewards(c, a, m)
                 /\ \A c \in Addr :
                        (coin'[c] > coin[c] /\ MarketStore[a].exists)
                            => /\ last' = [op |-> "claim_rewards", res |-> "ok"]
                               /\ MoveMarketExists(a, m)
                               /\ MoveSharesOf(a, m, MarketStore[a].markets[m].winning_outcome, c) > 0]_vars

\* C21 witness: on a Move market resolved for an outcome nobody bet on, the
\* claim of a bettor on a losing outcome has just aborted EMARKET_NOT_FOUND.
C21_Witness ==
    /\ last = [op |-> "claim_rewards", res |-> "EMARKET_NOT_FOUND"]
    /\ MoveMarketExists("a3", 1)
    /\ MarketStore["a3"].markets[1].status = STATUS_RESOLVED
    /\ MarketStore["a3"].markets[1].original_pool_size > 0
    /\ MoveOutcomeShares(MarketStore["a3"].markets[1],
                         MarketStore["a3"].markets[1].winning_outcome) = 0

\* The EVM case: a loser's claim failed NoShares while a winner holds stake.
C21_EvmWitness ==
    /\ last = [op |-> "claimRewards", res |-> "NoShares"]
    /\ markets[1].status = STATUS_RESOLVED
    /\ markets[1].winningOutcome = OUTCOME_PLAYER1
    /\ markets[1].player1Shares > 0
    /\ markets[1].player2Shares + markets[1].drawShares > 0

\* C22: every operation that fails, with a validation failure or because the
\* transfer of funds fails, leaves every record, share, claim flag and balance
\* of both chains exactly as before the call.
C22_FailureChangesNothing ==
    [][last'.res # "ok" => UNCHANGED <<ledger, aptos>>]_vars

\* C22 witness: a deposit into an open escrow has just failed in the token
\* transfer, the depositor's tokens being staked on the market.
C22_Witness ==
    /\ last = [op |-> "deposit", res |-> "TransferFailed"]
    /\ escrowExists(1)
    /\ ~escrows[1].deposited1
    /\ balance["a1"] = 0
    /\ balance[MarketContract] > 0

\* The same for a payout: a Move resolve has just aborted because the
\* administrator's account no longer holds the deposits.
C22_MoveWitness ==
    /\ last = [op |-> "resolve_win", res |-> "EINSUFFICIENT_BALANCE"]
    /\ MoveEscrowExists("a3", 1)
    /\ EscrowStore["a3"].escrows[1].deposited1
    /\ EscrowStore["a3"].escrows[1].deposited2

\* The participants whose claim on market m has succeeded.
Claimants(m) == {u \in Addr : hasClaimed[m][u]}

MoveClaimants(a, match_id) == {u \in Addr : MoveHasClaimed(a, match_id, u)}

\* C23: on a resolved market whose winning outcome holds stake, once every
\* participant with stake on the winning outcome has claimed, the snapshot
\* minus the rewards paid lies between 0 and the number of claimants minus 1;
\* and every single reward r for stake s satisfies
\* r <= s * snapshot / winningTotal < r + 1 (on either chain).
C23_DustBoundedByClaimants ==
    [][\A m \in MarketIds :
          /\ (/\ markets'[m].status = STATUS_RESOLVED
              /\ outcomeShares(markets'[m], markets'[m].winningOutcome) > 0
              /\ \A u \in Addr : userShares'[m][markets'[m].winningOutcome][u] = 0)
                 => /\ markets'[m].originalPoolSize - paid'[m] >= 0
                    /\ markets'[m].originalPoolSize - paid'[m]
                           <= Cardinality(Claimants(m)') - 1
          /\ last' = [op |-> "claimRewards", res |-> "ok"]
                 => \A u \in Addr :
                        claimRewards(u, m) =>
                            LET r == balance'[u] - balance[u]
                                s == userShares[m][markets[m].winningOutcome][u]
                                W == outcomeShares(markets[m], markets[m].winningOutcome)
                            IN  /\ r * W <= s * markets[m].originalPoolSize
                                /\ s * markets[m].originalPoolSize < (r + 1) * W
          /\ \A a \in Creators :
                 MoveMarketExists(a, m)' =>
                     LET y == MarketStore'[a].markets[m]
                     IN  /\ (/\ y.status = STATUS_RESOLVED
                             /\ MoveOutcomeShares(y, y.winning_outcome) > 0
                             /\ \E w \in Outcomes :
                                    /\ w = y.winning_outcome
                                    /\ \A u \in Addr : MoveSharesOf(a, m, w, u)' = 0)
                                => /\ y.pool >= 0
                                   /\ y.pool <= Cardinality(MoveClaimants(a, m)') - 1
                         /\ last' = [op |-> "claim_rewards", res |-> "ok"]
                                => \A u \in Addr :
                                       claim_rewards(u, a, m) =>
                                           LET x == MarketStore[a].markets[m]
                                               r == coin'[u] - coin[u]
                                               s == MoveSharesOf(a, m, x.winning_outcome, u)
                                               W == MoveOutcomeShares(x, x.winning_outcome)
                                           IN  /\ r = x.pool - y.pool
                                               /\ r * W <= s * x.original_pool_size
                                               /\ s * x.original_pool_size < (r + 1) * W]_vars

\* C23 witness: both winners of a resolved market have claimed and truncation
\* has left one unit of the snapshot in the contract.
C23_Witness ==
    /\ markets[1].status = STATUS_RESOLVED
    /\ hasClaimed[1]["a1"] /\ hasClaimed[1]["a2"]
    /\ \A u \in Addr : userShares[1][markets[1].winningOutcome][u] = 0
    /\ markets[1].originalPoolSize - paid[1] = 1

\* The same on the Move chain: one unit is left in the pool.
C23_MoveWitness ==
    /\ MoveMarketExists("a3", 1)
    /\ MarketStore["a3"].markets[1].status = STATUS_RESOLVED
    /\ MoveHasClaimed("a3", 1, "a1") /\ MoveHasClaimed("a3", 1, "a2")
    /\ MarketStore["a3"].markets[1].pool = 1

\* C24 as stated: on a resolved market, for a participant with unclaimed
\* non-zero stake on the winning outcome, the potential-reward query for the
\* winning outcome returns exactly what claimRewards then transfers to that
\* participant, whoever has claimed before (on either chain).
C24_QueryEqualsClaim ==
    [][\A m \in MarketIds, u \in Addr :
          /\ (last' = [op |-> "claimRewards", res |-> "ok"] /\ claimRewards(u, m))
                 => getPotentialReward(m, markets[m].winningOutcome, u)
                        = Returned(balance'[u] - balance[u])
          /\ last' = [op |-> "claim_rewards", res |-> "ok"]
                 => \A a \in Creators :
                        (MoveMarketExists(a, m) /\ claim_rewards(u, a, m))
                            => get_potential_reward(
                                   a, m, MarketStore[a].markets[m].winning_outcome, u)
                                   = Returned(coin'[u] - coin[u])]_vars

\* C24, the part the Solidity contract satisfies: its query returns what the
\* claim transfers; the Move query returns that amount as long as nobody has
\* claimed on the market.
C24_QueryEqualsClaimOnUntouchedPool ==
    [][\A m \in MarketIds, u \in Addr :
          /\ (last' = [op |-> "claimRewards", res |-> "ok"] /\ claimRewards(u, m))
                 => getPotentialReward(m, markets[m].winningOutcome, u)
                        = Returned(balance'[u] - balance[u])
          /\ last' = [op |-> "claim_rewards", res |-> "ok"]
                 => \A a \in Creators :
                        (/\ MoveMarketExists(a, m)
                         /\ MoveClaimants(a, m) = {}
                         /\ claim_rewards(u, a, m))
                            => get_potential_reward(
                                   a, m, MarketStore[a].markets[m].winning_outcome, u)
                                   = Returned(coin'[u] - coin[u])]_vars

\* C24 witness: on a Move market another winner has claimed, and the query
\* for a winner who has not returns less than the reward computed from the
\* snapshot.
C24_Witness ==
    /\ MoveMarketExists("a3", 1)
    /\ MarketStore["a3"].markets[1].status = STATUS_RESOLVED
    /\ MoveClaimants("a3", 1) # {}
    /\ \E u \in Addr :
           LET market == MarketStore["a3"].markets[1]
               s == MoveSharesOf("a3", 1, market.winning_outcome, u)
           IN  /\ s > 0
               /\ get_potential_reward("a3", 1, market.winning_outcome, u).ret
                      < Reward(s, market.original_pool_size,
                               MoveOutcomeShares(market, market.winning_outcome))

\* The EVM case: after another winner's claim the query still returns the
\* reward computed from the snapshot.
C24_EvmWitness ==
    /\ markets[1].status = STATUS_RESOLVED
    /\ paid[1] > 0
    /\ \E u \in Addr :
           /\ userShares[1][markets[1].winningOutcome][u] > 0
           /\ getPotentialReward(1, markets[1].winningOutcome, u)
                  = Returned(Reward(userShares[1][markets[1].winningOutcome][u],
                                    markets[1].originalPoolSize,
                                    outcomeShares(markets[1], markets[1].winningOutcome)))

\* The queries that both contracts answer for a match id without a record:
\* existence is false, every share is 0, the claimed flag is false and the
\* potential reward is 0; on the Move chain for an administrator whose stores
\* are initialised.
AbsentDefaults(m) ==
    /\ ~escrowExists(m) => escrows[m] = EmptyEscrow
    /\ ~marketExists(m)
           => \A u \in Addr :
                  /\ getUserAllShares(m, u) = Returned(<<0, 0, 0>>)
                  /\ hasUserClaimed(m, u) = Returned(FALSE)
                  /\ \A o \in OutcomeArgs :
                         /\ getUserShares(m, o, u) = Returned(0)
                         /\ getPotentialReward(m, o, u) = Returned(0)
    /\ \A a \in Creators :
           (MarketStore[a].exists /\ ~MoveMarketExists(a, m))
               => /\ market_exists(a, m) = Returned(FALSE)
                  /\ \A u \in Addr :
                         /\ get_user_all_shares(a, m, u) = Returned(<<0, 0, 0>>)
                         /\ has_claimed(a, m, u) = Returned(FALSE)
                         /\ \A o \in OutcomeArgs :
                                /\ get_user_shares(a, m, o, u) = Returned(0)
                                /\ get_potential_reward(a, m, o, u) = Returned(0)

\* C25 as stated: every read-only query called with a match id that has no
\* record returns without failing, with zero / false / default values.
C25_AbsentQueriesNeverFail ==
    \A m \in MatchIds :
        /\ AbsentDefaults(m)
        /\ ~escrowExists(m)
               => getEscrow(m) = Returned(<<Zero, Zero, Zero, 0, 0, FALSE, FALSE>>)
        /\ ~marketExists(m)
               => /\ getMarketStats(m) = Returned(<<0, 0, 0, 0, 0, 0>>)
                  /\ getMarketAdmin(m) = Returned(Zero)
        /\ \A a \in Creators :
               (MarketStore[a].exists /\ ~MoveMarketExists(a, m))
                   => /\ get_market_stats(a, m) = Returned(<<0, 0, 0, 0, 0, 0>>)
                      /\ get_market_admin(a, m) = Returned(Zero)

\* C25 amended: for a match id without a record the existence, share, claimed
\* flag and potential-reward queries return false / 0, while the detail
\* queries fail: getEscrow with EscrowNotFound, the market stats and market
\* administrator queries with MarketNotFound (on either chain); and every Move
\* query aborts when the administrator's store does not exist.
C25_AbsentDetailQueriesFail ==
    \A m \in MatchIds :
        /\ AbsentDefaults(m)
        /\ ~escrowExists(m) => getEscrow(m) = Failed("EscrowNotFound")
        /\ ~marketExists(m)
               => /\ getMarketStats(m) = Failed("MarketNotFound")
                  /\ getMarketAdmin(m) = Failed("MarketNotFound")
        /\ \A a \in Creators :
               /\ (MarketStore[a].exists /\ ~MoveMarketExists(a, m))
                      => /\ get_market_stats(a, m) = Failed("EMARKET_NOT_FOUND")
                         /\ get_market_admin(a, m) = Failed("EMARKET_NOT_FOUND")
               /\ ~MarketStore[a].exists
                      => /\ market_exists(a, m) = Failed("MISSING_DATA")
                         /\ get_market_stats(a, m) = Failed("MISSING_DATA")
                         /\ get_market_admin(a, m) = Failed("MISSING_DATA")
                         /\ \A u \in Addr, o \in OutcomeArgs :
                                /\ get_user_shares(a, m, o, u) = Failed("MISSING_DATA")
                                /\ get_potential_reward(a, m, o, u)
                                       = Failed("MISSING_DATA")

\* C25 witness: the escrow of match 1 has been created, funded and resolved,
\* so its record is absent again, and no market exists for match 1.
C25_Witness ==
    /\ chain = "evm"
    /\ last.op \in {"resolveWin", "resolveDraw"} /\ last.res = "ok"
    /\ ~escrowExists(1)
    /\ ~marketExists(1)
    /\ balance["a1"] + balance["a2"] > 0

\* The same on the Move chain: the administrator's stores exist and hold no
\* market for match 1.
C25_MoveWitness ==
    /\ chain = "aptos"
    /\ MarketStore["a3"].exists
    /\ ~MoveMarketExists("a3", 1)
    /\ EscrowStore["a3"].exists

\* C26 as stated: an escrow create with stake 0 or with the zero identity as
\* player1 or player2 fails and inserts no record, so every existing escrow
\* has a positive stake and two non-zero players (on either chain).
C26_CreateValidatesArguments ==
    [][\A m \in MatchIds :
          /\ (last'.op = "createEscrow" /\ ~escrowExists(m))
                 => \A c \in Creators, p1 \in {Zero, "a1", "a2"}, p2 \in {Zero, "a2"},
                       amt \in Stakes :
                        ((amt = 0 \/ p1 = Zero \/ p2 = Zero)
                             /\ createEscrow(c, m, p1, p2, amt))
                            => (last'.res # "ok" /\ UNCHANGED ledger)
          /\ escrowExists(m)'
                 => /\ escrows'[m].amount > 0
                    /\ escrows'[m].player1 # Zero
                    /\ escrows'[m].player2 # Zero
          /\ \A a \in Creators :
                 /\ (last'.op = "create_escrow" /\ ~MoveEscrowExists(a, m))
                        => \A p1 \in {Zero, "a1", "a2"}, p2 \in {Zero, "a2"},
                              amt \in Stakes :
                               ((amt = 0 \/ p1 = Zero \/ p2 = Zero)
                                    /\ create_escrow(a, m, p1, p2, amt))
                                   => (last'.res # "ok" /\ UNCHANGED aptos)
                 /\ MoveEscrowExists(a, m)'
                        => /\ EscrowStore'[a].escrows[m].amount > 0
                           /\ EscrowStore'[a].escrows[m].player1 # Zero
                           /\ EscrowStore'[a].escrows[m].player2 # Zero]_vars

\* C26, the part the Solidity contract satisfies: on the EVM chain such a
\* create fails and every existing escrow has a positive stake and two
\* non-zero players.
C26_EvmCreateValidatesArguments ==
    [][\A m \in MatchIds :
          /\ (last'.op = "createEscrow" /\ ~escrowExists(m))
                 => \A c \in Creators, p1 \in {Zero, "a1", "a2"}, p2 \in {Zero, "a2"},
                       amt \in Stakes :
                        ((amt = 0 \/ p1 = Zero \/ p2 = Zero)
                             /\ createEscrow(c, m, p1, p2, amt))
                            => (last'.res # "ok" /\ UNCHANGED ledger)
          /\ escrowExists(m)'
                 => /\ escrows'[m].amount > 0
                    /\ escrows'[m].player1 # Zero
                    /\ escrows'[m].player2 # Zero]_vars

\* C26 witness: a Move escrow with stake 0 and the zero address as player1
\* exists.
C26_Witness ==
    /\ last = [op |-> "create_escrow", res |-> "ok"]
    /\ \E a \in Creators :
           /\ MoveEscrowExists(a, 1)
           /\ EscrowStore[a].escrows[1].amount = 0
           /\ EscrowStore[a].escrows[1].player1 = Zero

\* The EVM case: a create with stake 0 has just been refused.
C26_EvmWitness ==
    /\ last = [op |-> "createEscrow", res |-> "Invalid amount"]
    /\ ~escrowExists(1)
    /\ created > 0

C27_MoveWitness ==
    /\ MoveEscrowExists("a3", 1) /\ EscrowStore["a3"].escrows[1].total > 0
    /\ MoveMarketExists("a3", 1) /\ MarketStore["a3"].markets[1].pool > 0

\* The calls on match id m that the two-match specification issues.
MakeCall(op, sender, m, outcome) ==
    [op |-> op, sender |-> sender, matchId |-> m, player1 |-> "a1",
     player2 |-> "a2", amount |-> MaxStake, winner |-> "a1",
     outcome |-> outcome, approved |-> TRUE]

CallsOn(m) ==
    {MakeCall(op, "a3", m, OUTCOME_PLAYER1) :
         op \in {"createEscrow", "resolveWin", "resolveDraw", "createMarket",
                 "resolveMarket"}}
    \cup {MakeCall(op, s, m, OUTCOME_PLAYER1) :
              op \in {"deposit", "claimRewards"}, s \in {"a1", "a2"}}
    \cup {MakeCall("bet", "a1", m, OUTCOME_PLAYER1),
          MakeCall("bet", "a2", m, OUTCOME_PLAYER2)}

\* The records of the ledger L that are keyed by match id m.
RecordsOf(L, m) ==
    <<L.escrows[m], L.markets[m], L.userShares[m], L.hasClaimed[m]>>

\* Two calls on different match ids that succeed one after the other in both
\* orders leave the same ledger.
Commute ==
    \A a \in CallsOn(1) :
        LET s1 == Apply(Ledger, a)
        IN  s1.res = "ok" =>
                \A b \in CallsOn(2) :
                    LET s2 == Apply(Ledger, b)
                    IN  s2.res = "ok" =>
                            LET s12 == Apply(s1.ledger, b)
                                s21 == Apply(s2.ledger, a)
                            IN  (s12.res = "ok" /\ s21.res = "ok")
                                    => s12.ledger = s21.ledger

\* Every step is one call on one match id, has the result and the ledger that
\* Apply computes for it, and leaves the records of the other match id as
\* they were.
Framed ==
    \E m \in MatchIds :
        \E c \in CallsOn(m) :
            /\ c.op = last'.op
            /\ Apply(Ledger, c) = [res |-> last'.res, ledger |-> Ledger']
            /\ \A n \in MatchIds \ {m} : RecordsOf(Ledger', n) = RecordsOf(Ledger, n)

\* C28: an operation on one match id, successful or failing, leaves every
\* escrow record, market record, share and claim flag keyed by another match
\* id unchanged; and two operations on different match ids that succeed in
\* either order produce the same ledger in both orders.
C28_MatchesAreIndependent == [][Framed]_vars /\ []Commute

\* C28 witness: both matches have a funded escrow and a market that took a
\* bet, and the reward of match 1 has been claimed while match 2 is open.
C28_Witness ==
    /\ escrows[1].total > 0 /\ escrows[2].total > 0
    /\ hasClaimed[1]["a1"]
    /\ markets[2].status = STATUS_ACTIVE /\ markets[2].pool > 0


\* C29: while the reward transfer of a claimRewards is in flight the caller's
\* claim flag is already set and the caller's share of the winning outcome is
\* already zero; a claimRewards by the same caller on the same market made
\* during the transfer fails AlreadyClaimed and changes nothing; and when the
\* transfer has returned the market has paid exactly one reward for the call.
C29_ClaimInFlightCannotRepeat ==
    [][inFlight.op = "claimRewards" =>
          LET sender == inFlight.sender
              m == inFlight.matchId
          IN  /\ hasClaimed[m][sender]
              /\ userShares[m][markets[m].winningOutcome][sender] = 0
              /\ (inFlight' = inFlight /\ last'.op = "claimRewards")
                     => (last'.res = "AlreadyClaimed" /\ UNCHANGED ledger)
              /\ (inFlight' = NoCall /\ last'.res = "ok")
                     => /\ paid'[m] = inFlight.saved.paid[m] + inFlight.amount
                        /\ balance'[MarketContract] =
                               inFlight.saved.balance[MarketContract] - inFlight.amount
                        /\ hasClaimed'[m][sender]]_vars

\* A claim's transfer is in flight and the caller's second claimRewards, made
\* from inside it, has just failed.
C29_Witness ==
    /\ inFlight.op = "claimRewards"
    /\ inFlight.amount > 0
    /\ last = [op |-> "claimRewards", res |-> "AlreadyClaimed"]


\* C30: deposit is atomic towards the other operations on its matchId: in
\* every state in which the transfer of a deposit is in flight the slot flag
\* of the depositor is already set, a deposit made by the same player on the
\* same matchId during the transfer does not succeed, and every existing
\* escrow has total = amount * (number of flags set) in every state.
C30_DepositIsAtomic ==
    [][/\ \A m \in MatchIds :
              escrowExists(m) =>
                  escrows[m].total = escrows[m].amount * Flags(escrows[m])
       /\ inFlight.op = "deposit" =>
              LET e == escrows[inFlight.matchId]
              IN  /\ IF inFlight.slot = 1 THEN e.deposited1 ELSE e.deposited2
                  /\ (inFlight' = inFlight /\ last'.op = "deposit")
                         => last'.res # "ok"]_vars

\* What holds of the contract whatever the token does: the total of an
\* existing escrow is never below amount * flags, is at most twice that (each
\* player's stake taken once more by a deposit made inside the transfer of
\* that player's deposit), and is covered by the tokens the contract holds
\* whenever no transfer is in flight.
C30_TotalIsAtLeastStakeTimesFlags ==
    \A m \in MatchIds :
        escrowExists(m) =>
            LET e == escrows[m]
            IN  /\ e.total >= e.amount * Flags(e)
                /\ e.total <= 2 * e.amount * Flags(e)
                /\ inFlight = NoCall => balance[EscrowContract] >= e.total

\* A deposit made from inside the transfer of a deposit by the same player
\* has succeeded, the outer deposit has completed too, and the escrow counts
\* two stakes with one flag set.
C30_Witness ==
    /\ inFlight = NoCall
    /\ escrowExists(1)
    /\ Flags(escrows[1]) = 1
    /\ escrows[1].total = 2 * escrows[1].amount
    /\ balance[EscrowContract] = 2 * escrows[1].amount


\* C31 as stated: on a fully funded escrow a resolveWin by the administrator
\* succeeds whoever the winner argument names (a player, an outsider or the
\* administrator itself) and pays the payout, total - fee, to that identity,
\* on either chain.
C31_AnyWinnerIsPaid ==
    [][\A c \in Addr, m \in MatchIds, w \in Addr :
          /\ (/\ last'.op = "resolveWin"
              /\ escrowExists(m) /\ c = escrows[m].admin
              /\ escrows[m].deposited1 /\ escrows[m].deposited2
              /\ resolveWin(c, m, w))
                 => /\ last'.res = "ok"
                    /\ balance'[w] = balance[w] + escrows[m].total
                                         - (IF w = c THEN 0 ELSE Fee(escrows[m].total))
          /\ (/\ last'.op = "resolve_win"
              /\ MoveEscrowExists(c, m)
              /\ c = EscrowStore[c].escrows[m].admin
              /\ EscrowStore[c].escrows[m].deposited1
              /\ EscrowStore[c].escrows[m].deposited2
              /\ resolve_win(c, m, w))
                 => /\ last'.res = "ok"
                    /\ coin' = Transfer(coin, c, w,
                                        EscrowStore[c].escrows[m].total
                                            - MoveFee(EscrowStore[c].escrows[m].total))]_vars


\* What holds on both chains: the winner argument is never a reason for
\* failure. On the EVM chain the administrator's resolveWin on a fully funded
\* escrow succeeds for every winner and pays it total - fee (and the fee too
\* when the winner is the administrator); on the Move chain it either does the
\* same from the administrator's account or aborts for lack of coins in that
\* account, whatever the winner.
C31_WinnerIsNotValidated ==
    [][\A c \in Addr, m \in MatchIds, w \in Addr :
          /\ (/\ last'.op = "resolveWin"
              /\ escrowExists(m) /\ c = escrows[m].admin
              /\ escrows[m].deposited1 /\ escrows[m].deposited2
              /\ resolveWin(c, m, w))
                 => /\ last'.res = "ok"
                    /\ balance'[w] = balance[w] + escrows[m].total
                                         - (IF w = c THEN 0 ELSE Fee(escrows[m].total))
          /\ (/\ last'.op = "resolve_win"
              /\ MoveEscrowExists(c, m)
              /\ c = EscrowStore[c].escrows[m].admin
              /\ EscrowStore[c].escrows[m].deposited1
              /\ EscrowStore[c].escrows[m].deposited2
              /\ resolve_win(c, m, w))
                 => LET payout == EscrowStore[c].escrows[m].total
                                      - MoveFee(EscrowStore[c].escrows[m].total)
                    IN  IF coin[c] < payout
                        THEN last'.res = "EINSUFFICIENT_BALANCE" /\ UNCHANGED aptos
                        ELSE last'.res = "ok" /\ coin' = Transfer(coin, c, w, payout)]_vars

\* On the Move chain the administrator's resolve_win on a fully funded escrow
\* has just aborted: the administrator's account no longer holds the payout.
C31_Witness ==
    /\ chain = "aptos"
    /\ last = [op |-> "resolve_win", res |-> "EINSUFFICIENT_BALANCE"]
    /\ \E a \in Addr :
           /\ MoveEscrowExists(a, 1)
           /\ EscrowStore[a].escrows[1].deposited1
           /\ EscrowStore[a].escrows[1].deposited2
           /\ coin[a] < EscrowStore[a].escrows[1].total
                            - MoveFee(EscrowStore[a].escrows[1].total)

\* On the EVM chain an outsider named as winner was paid the payout of a
\* fully funded escrow of the large stake.
C31_EvmWitness ==
    /\ chain = "evm"
    /\ last = [op |-> "resolveWin", res |-> "ok"]
    /\ balance["a3"] = MaxStake + 1 + 2 * MaxStake - Fee(2 * MaxStake)
    /\ balance["a1"] = 1 + Fee(2 * MaxStake)


\* C32 as stated: resolve applies its checks in the order InvalidOutcome,
\* NotFound, NotAdmin, AlreadyResolved on either chain: an outcome outside
\* {Player1, Player2, Draw} fails InvalidOutcome even for an absent market, and
\* a caller other than the administrator of a resolved market gets NotAdmin.
C32_ResolveCheckOrder ==
    [][\A c \in Addr, m \in MarketIds, o \in OutcomeArgs :
          /\ (last'.op = "resolveMarket" /\ resolveMarket(c, m, o))
                 => last'.res =
                        IF ~validOutcome(o) THEN "InvalidOutcome"
                        ELSE IF ~marketExists(m) THEN "MarketNotFound"
                        ELSE IF c # markets[m].admin THEN "NotAdmin"
                        ELSE IF markets[m].status # STATUS_ACTIVE
                        THEN "MarketAlreadyResolved"
                        ELSE "ok"
          /\ (last'.op = "resolve_market" /\ resolve_market(c, m, o))
                 => /\ ~validOutcome(o) => last'.res = "EINVALID_OUTCOME"
                    /\ \A a \in Addr \ {c} :
                           (/\ validOutcome(o)
                            /\ MoveMarketExists(a, m)
                            /\ MarketStore[a].markets[m].status = STATUS_RESOLVED)
                               => last'.res = "ENOT_ADMIN"]_vars

\* The order of the checks as the code has it: the Solidity resolveMarket in
\* the order stated; the Move resolve_market looks the market up in the
\* caller's own store first (no store, then no such market), then checks the
\* outcome, the administrator and the status, so that a caller other than the
\* administrator never reaches the administrator check.
C32_ResolveCheckOrderPerChain ==
    [][\A c \in Addr, m \in MarketIds, o \in OutcomeArgs :
          /\ (last'.op = "resolveMarket" /\ resolveMarket(c, m, o))
                 => last'.res =
                        IF ~validOutcome(o) THEN "InvalidOutcome"
                        ELSE IF ~marketExists(m) THEN "MarketNotFound"
                        ELSE IF c # markets[m].admin THEN "NotAdmin"
                        ELSE IF markets[m].status # STATUS_ACTIVE
                        THEN "MarketAlreadyResolved"
                        ELSE "ok"
          /\ (last'.op = "resolve_market" /\ resolve_market(c, m, o))
                 => last'.res =
                        IF ~MarketStore[c].exists THEN "MISSING_DATA"
                        ELSE IF ~MoveMarketExists(c, m) THEN "EMARKET_NOT_FOUND"
                        ELSE IF ~validOutcome(o) THEN "EINVALID_OUTCOME"
                        ELSE IF MarketStore[c].markets[m].status # STATUS_ACTIVE
                        THEN "EMARKET_ALREADY_RESOLVED"
                        ELSE "ok"]_vars

\* On the Move chain a resolve_market by an account other than the
\* administrator of the resolved market has just failed, and not with
\* ENOT_ADMIN: the caller has no market store of its own.
C32_Witness ==
    /\ chain = "aptos"
    /\ last = [op |-> "resolve_market", res |-> "MISSING_DATA"]
    /\ MoveMarketExists("a3", 1)
    /\ MarketStore["a3"].markets[1].status = STATUS_RESOLVED

\* On the EVM chain a caller other than the administrator has just been
\* refused NotAdmin on a resolved market.
C32_EvmWitness ==
    /\ chain = "evm"
    /\ last = [op |-> "resolveMarket", res |-> "NotAdmin"]
    /\ markets[1].status = STATUS_RESOLVED


\* C33: a participant's share on an outcome never decreases, except that the
\* participant's successful claimRewards sets the share on the winning outcome
\* to 0; a successful claimRewards changes no other share, none of the outcome
\* totals and not the snapshot; a successful bet adds its amount to the
\* caller's share on the chosen outcome and changes no other share.
C33_SharesOnlyGrowUntilClaimed ==
    [][/\ userShares' # userShares
              => \A m \in MarketIds, o \in Outcomes, u \in Addr :
                     userShares'[m][o][u] < userShares[m][o][u]
                         => /\ last' = [op |-> "claimRewards", res |-> "ok"]
                            /\ o = markets[m].winningOutcome
                            /\ userShares'[m][o][u] = 0
                            /\ hasClaimed'[m][u] /\ ~hasClaimed[m][u]
       /\ OutcomeSharesStore' # OutcomeSharesStore
              => \A a \in Creators, m \in MarketIds, o \in Outcomes, u \in Addr :
                     MoveSharesOf(a, m, o, u)' < MoveSharesOf(a, m, o, u)
                         => /\ last' = [op |-> "claim_rewards", res |-> "ok"]
                            /\ o = MarketStore[a].markets[m].winning_outcome
                            /\ MoveSharesOf(a, m, o, u)' = 0
                            /\ MoveHasClaimed(a, m, u)' /\ ~MoveHasClaimed(a, m, u)
       /\ last' = [op |-> "claimRewards", res |-> "ok"]
              => /\ markets' = markets
                 /\ \E c \in Addr, m \in MarketIds :
                        /\ userShares[m][markets[m].winningOutcome][c] > 0
                        /\ userShares' = [userShares EXCEPT
                               ![m][markets[m].winningOutcome][c] = 0]
       /\ last' = [op |-> "bet", res |-> "ok"]
              => \E c \in Addr, m \in MarketIds, o \in Outcomes,
                    amount \in 1 .. BettorBalance :
                     /\ balance'[c] = balance[c] - amount
                     /\ userShares' = [userShares EXCEPT ![m][o][c] = @ + amount]
       /\ last' = [op |-> "claim_rewards", res |-> "ok"]
              => \E c \in Addr, a \in Creators, m \in MarketIds :
                     LET x == MarketStore[a].markets[m]
                         y == MarketStore'[a].markets[m]
                     IN  /\ MoveSharesOf(a, m, x.winning_outcome, c) > 0
                         /\ y.player1_shares = x.player1_shares
                         /\ y.player2_shares = x.player2_shares
                         /\ y.draw_shares = x.draw_shares
                         /\ y.original_pool_size = x.original_pool_size
                         /\ \A b \in Creators, n \in MarketIds,
                               o \in Outcomes, u \in Addr :
                                MoveSharesOf(b, n, o, u)' =
                                    IF b = a /\ n = m /\ u = c
                                           /\ o = x.winning_outcome
                                    THEN 0 ELSE MoveSharesOf(b, n, o, u)
       /\ last' = [op |-> "prediction_market::bet", res |-> "ok"]
              => \E c \in Addr, a \in Creators, m \in MarketIds,
                    p \in Outcomes, amount \in 1 .. BettorBalance :
                     /\ coin'[c] = coin[c] - amount
                     /\ \A b \in Creators, n \in MarketIds,
                           o \in Outcomes, u \in Addr :
                            MoveSharesOf(b, n, o, u)' =
                                MoveSharesOf(b, n, o, u)
                                    + (IF b = a /\ n = m /\ u = c /\ o = p
                                       THEN amount ELSE 0)]_vars

\* A bettor holding shares on two outcomes has claimed: the share on the
\* winning outcome is 0, the one on the other outcome is kept, and so is the
\* other bettor's share on the winning outcome.
C33_Witness ==
    /\ last = [op |-> "claimRewards", res |-> "ok"]
    /\ markets[1].winningOutcome = OUTCOME_PLAYER1
    /\ hasClaimed[1]["a1"]
    /\ userShares[1][OUTCOME_PLAYER1]["a1"] = 0
    /\ userShares[1][OUTCOME_PLAYER2]["a1"] > 0
    /\ userShares[1][OUTCOME_PLAYER1]["a2"] > 0

\* The same on the Move chain.
C33_MoveWitness ==
    /\ last = [op |-> "claim_rewards", res |-> "ok"]
    /\ MoveMarketExists("a3", 1)
    /\ MarketStore["a3"].markets[1].winning_outcome = OUTCOME_PLAYER1
    /\ MoveHasClaimed("a3", 1, "a1")
    /\ MoveSharesOf("a3", 1, OUTCOME_PLAYER1, "a1") = 0
    /\ MoveSharesOf("a3", 1, OUTCOME_PLAYER2, "a1") > 0
    /\ MoveSharesOf("a3", 1, OUTCOME_PLAYER1, "a2") > 0


\* What market m may still have to pay out: its pool while it is Active, its
\* snapshot less the rewards already paid once it is Resolved.
Owed(m) ==
    IF markets[m].status = STATUS_ACTIVE THEN markets[m].pool
    ELSE IF markets[m].status = STATUS_RESOLVED
    THEN markets[m].originalPoolSize - paid[m]
    ELSE 0

RECURSIVE SumOwed(_)
SumOwed(ids) ==
    IF ids = {} THEN 0
    ELSE LET m == CHOOSE x \in ids : TRUE
         IN  Owed(m) + SumOwed(ids \ {m})

\* C34: in every reachable state the tokens held by the market contract are at
\* least the sum of Owed over all markets, and a claimRewards by a participant
\* with an unclaimed nonzero stake on the winning outcome of a resolved market
\* succeeds, whatever was done before on this and the other market.
C34_FundsCoverMarkets ==
    /\ [](balance[MarketContract] >= SumOwed(MatchIds))
    /\ [][\A c \in Addr, m \in MatchIds :
              (/\ last'.op = "claimRewards"
               /\ markets[m].status = STATUS_RESOLVED
               /\ ~hasClaimed[m][c]
               /\ userShares[m][markets[m].winningOutcome][c] > 0
               /\ claimRewards(c, m))
                  => /\ last'.res = "ok"
                     /\ balance'[MarketContract] >= SumOwed(MatchIds)']_vars

\* One market is resolved with one winner paid and another still to claim,
\* while the other market on the same contract is Active with a pool.
C34_Witness ==
    \E m \in MatchIds, n \in MatchIds :
        /\ m # n
        /\ last = [op |-> "claimRewards", res |-> "ok"]
        /\ markets[m].status = STATUS_RESOLVED
        /\ paid[m] > 0
        /\ \E u \in Addr : /\ ~hasClaimed[m][u]
                           /\ userShares[m][markets[m].winningOutcome][u] > 0
        /\ markets[n].status = STATUS_ACTIVE
        /\ markets[n].pool > 0

\* The Move module keeps each market's coins in the market record: no
\* claim_rewards fails for lack of coins in the pool, and one by a user with
\* an unclaimed nonzero stake on the winning outcome succeeds.
C34_MovePoolCoversClaims ==
    [][\A c \in Addr, a \in Creators, m \in MarketIds :
          (last'.op = "claim_rewards" /\ claim_rewards(c, a, m))
              => /\ last'.res # "EINSUFFICIENT_BALANCE"
                 /\ (/\ MoveMarketExists(a, m)
                     /\ MarketStore[a].markets[m].status = STATUS_RESOLVED
                     /\ MoveSharesOf(a, m, MarketStore[a].markets[m].winning_outcome, c) > 0)
                        => last'.res = "ok"]_vars


\* C35: in every reachable state the escrow contract holds at least the sum
\* of the totals of all existing escrows, and a resolveWin or resolveDraw by
\* the administrator of a fully funded escrow succeeds (never fails for lack
\* of contract funds), whatever happened to the other escrow of the contract.
C35_ContractCoversEscrows ==
    /\ [](balance[EscrowContract] >= SumTotals(MatchIds))
    /\ [][\A c \in Addr, m \in MatchIds :
              (/\ last'.op \in {"resolveWin", "resolveDraw"}
               /\ escrowExists(m) /\ c = escrows[m].admin
               /\ escrows[m].deposited1 /\ escrows[m].deposited2
               /\ \/ resolveDraw(c, m)
                  \/ \E w \in Addr : resolveWin(c, m, w))
                  => /\ last'.res = "ok"
                     /\ balance'[EscrowContract]
                            = balance[EscrowContract] - escrows[m].total
                                  + (IF last'.op = "resolveDraw"
                                     THEN (escrows[m].total - Fee(escrows[m].total))
                                              - 2 * Split(escrows[m].total
                                                              - Fee(escrows[m].total))
                                     ELSE 0)]_vars

\* An escrow has just been resolved while the other escrow of the contract
\* holds deposits, which the contract still covers.
C35_Witness ==
    \E m \in MatchIds, n \in MatchIds :
        /\ m # n
        /\ last.op \in {"resolveWin", "resolveDraw"} /\ last.res = "ok"
        /\ ~escrowExists(m)
        /\ escrows[n].total > 0
        /\ balance[EscrowContract] >= escrows[n].total
        /\ balance[EscrowContract] < MaxStake


\* C36: on a resolved market, for any two participants with an unclaimed
\* stake on the winning outcome, claiming in either order succeeds, pays each
\* of the two the same reward in both orders, and ends in the same ledger;
\* each claimRewards step is the function claimRewardsOn of the ledger, with
\* which the two orders are run.
C36_ClaimOrderIsIrrelevant ==
    /\ [](\A m \in MatchIds, u1 \in Addr, u2 \in Addr :
              (/\ u1 # u2
               /\ markets[m].status = STATUS_RESOLVED
               /\ ~hasClaimed[m][u1] /\ ~hasClaimed[m][u2]
               /\ userShares[m][markets[m].winningOutcome][u1] > 0
               /\ userShares[m][markets[m].winningOutcome][u2] > 0)
                  => LET first1 == claimRewardsOn(Ledger, u1, m)
                         first2 == claimRewardsOn(Ledger, u2, m)
                         then2 == claimRewardsOn(first1.ledger, u2, m)
                         then1 == claimRewardsOn(first2.ledger, u1, m)
                     IN  /\ first1.res = "ok" /\ then2.res = "ok"
                         /\ first2.res = "ok" /\ then1.res = "ok"
                         /\ first1.ledger.balance[u1] - balance[u1]
                                = then1.ledger.balance[u1] - first2.ledger.balance[u1]
                         /\ first2.ledger.balance[u2] - balance[u2]
                                = then2.ledger.balance[u2] - first1.ledger.balance[u2]
                         /\ then2.ledger = then1.ledger)
    /\ [][last'.op = "claimRewards"
              => \E c \in Addr, m \in MatchIds :
                     claimRewardsOn(Ledger, c, m)
                         = [res |-> last'.res, ledger |-> Ledger']]_vars

\* A resolved market with two unclaimed winners of different stakes and a
\* snapshot larger than the two stakes together.
C36_Witness ==
    \E m \in MatchIds :
        LET w == markets[m].winningOutcome
        IN  /\ markets[m].status = STATUS_RESOLVED
            /\ ~hasClaimed[m]["a1"] /\ ~hasClaimed[m]["a2"]
            /\ userShares[m][w]["a1"] > 0
            /\ userShares[m][w]["a2"] > 0
            /\ userShares[m][w]["a1"] # userShares[m][w]["a2"]
            /\ markets[m].originalPoolSize
                   > userShares[m][w]["a1"] + userShares[m][w]["a2"]

\* On the Move chain a successful claim_rewards pays the caller
\* floor(share * snapshot / winning total), three quantities that a claim by
\* another user leaves unchanged.
C36_MoveRewardIgnoresOtherClaims ==
    [][last' = [op |-> "claim_rewards", res |-> "ok"]
          => \E c \in Addr, a \in Creators, m \in MarketIds :
                 LET x == MarketStore[a].markets[m]
                     reward == Reward(MoveSharesOf(a, m, x.winning_outcome, c),
                                      x.original_pool_size,
                                      MoveOutcomeShares(x, x.winning_outcome))
                 IN  /\ MoveSharesOf(a, m, x.winning_outcome, c) > 0
                     /\ MoveSharesOf(a, m, x.winning_outcome, c)' = 0
                     /\ coin' = [coin EXCEPT ![c] = @ + reward]
                     /\ MarketStore'[a].markets[m].pool = x.pool - reward]_vars


\* Both flags of escrow m are set and the administrator's resolveWin succeeds.
EvmFunded(m) ==
    /\ escrows[m].deposited1 /\ escrows[m].deposited2
    /\ resolveWinOn(Ledger, escrows[m].admin, m, "a1").res = "ok"

MoveFunded(a, match_id) ==
    /\ MoveEscrowExists(a, match_id)
    /\ EscrowStore[a].escrows[match_id].deposited1
    /\ EscrowStore[a].escrows[match_id].deposited2

\* C37 as stated: every escrow that create admits gets fully funded by the
\* deposits of its players (who hold enough and deposit when they can), after
\* which both flags are set and resolve is enabled; also when player1 and
\* player2 are the same identity.
C37_EveryEscrowGetsFunded ==
    \A m \in MatchIds :
        /\ escrowExists(m) ~> EvmFunded(m)
        /\ \A a \in Creators : MoveEscrowExists(a, m) ~> MoveFunded(a, m)

\* What holds: an escrow of two different players gets fully funded, and on
\* the EVM chain the administrator can then resolve it.
C37_DistinctPlayersGetFunded ==
    \A m \in MatchIds :
        /\ (escrowExists(m) /\ escrows[m].player1 # escrows[m].player2)
               ~> EvmFunded(m)
        /\ \A a \in Creators :
               (/\ MoveEscrowExists(a, m)
                /\ EscrowStore[a].escrows[m].player1
                       # EscrowStore[a].escrows[m].player2)
                   ~> MoveFunded(a, m)

\* And an escrow whose player1 and player2 are the same identity never has
\* its second flag set, in any reachable state: it can never be resolved.
C37_SamePlayerNeverFunded ==
    \A m \in MatchIds :
        /\ (escrowExists(m) /\ escrows[m].player1 = escrows[m].player2)
               => ~escrows[m].deposited2
        /\ \A a \in Creators :
               (/\ MoveEscrowExists(a, m)
                /\ EscrowStore[a].escrows[m].player1
                       = EscrowStore[a].escrows[m].player2)
                   => ~EscrowStore[a].escrows[m].deposited2

\* An escrow created with a2 as both players holds a2's stake of the large
\* amount, and a2's second deposit has just been refused.
C37_Witness ==
    /\ last = [op |-> "deposit", res |-> "AlreadyDeposited"]
    /\ \E m \in MatchIds :
           /\ escrows[m].player1 = "a2" /\ escrows[m].player2 = "a2"
           /\ escrows[m].deposited1 /\ ~escrows[m].deposited2
           /\ escrows[m].total = MaxStake
           /\ balance[EscrowContract] >= MaxStake

\* The same on the Move chain.
C37_MoveWitness ==
    /\ last = [op |-> "escrow::deposit", res |-> "EALREADY_DEPOSITED"]
    /\ \E a \in Creators, m \in MatchIds :
           /\ MoveEscrowExists(a, m)
           /\ EscrowStore[a].escrows[m].player1 = "a2"
           /\ EscrowStore[a].escrows[m].player2 = "a2"
           /\ EscrowStore[a].escrows[m].deposited1
           /\ ~EscrowStore[a].escrows[m].deposited2
           /\ EscrowStore[a].escrows[m].total = MaxStake


\* C38: for every market and outcome, while the market is Active (and after
\* resolution until the first claim) the participants' shares on the outcome
\* sum to the outcome total; on a resolved market no step changes the total of
\* the winning outcome, and the sum of the shares on it changes only by a
\* successful claim, which takes the claimant's share off it: the total is the
\* remaining shares plus the shares zeroed by claims. On either chain.
C38_SharesSumToOutcomeTotal ==
    /\ [](\A m \in MarketIds, o \in Outcomes :
              /\ (\/ markets[m].status = STATUS_ACTIVE
                  \/ \A u \in Addr : ~hasClaimed[m][u])
                     => outcomeShares(markets[m], o) = SumShares(m, {o} \X Addr)
              /\ \A a \in Creators :
                     (/\ MoveMarketExists(a, m)
                      /\ \/ MarketStore[a].markets[m].status = STATUS_ACTIVE
                         \/ \A u \in Addr : ~MoveHasClaimed(a, m, u))
                         => MoveOutcomeShares(MarketStore[a].markets[m], o)
                                = MoveSumShares(a, m, {o} \X Addr))
    /\ [][\A m \in MarketIds :
              /\ (/\ (markets' # markets \/ userShares' # userShares)
                  /\ markets[m].status = STATUS_RESOLVED)
                     => LET w == markets[m].winningOutcome
                        IN  /\ outcomeShares(markets'[m], w)
                                   = outcomeShares(markets[m], w)
                            /\ \/ SumShares(m, {w} \X Addr)' = SumShares(m, {w} \X Addr)
                               \/ /\ last' = [op |-> "claimRewards", res |-> "ok"]
                                  /\ \E c \in Addr :
                                         /\ ~hasClaimed[m][c] /\ hasClaimed'[m][c]
                                         /\ userShares[m][w][c] > 0
                                         /\ SumShares(m, {w} \X Addr)'
                                                = SumShares(m, {w} \X Addr)
                                                      - userShares[m][w][c]
              /\ \A a \in Creators :
                     (/\ (MarketStore' # MarketStore
                             \/ OutcomeSharesStore' # OutcomeSharesStore)
                      /\ MoveMarketExists(a, m)
                      /\ MarketStore[a].markets[m].status = STATUS_RESOLVED)
                         => \E w \in Outcomes :
                                /\ w = MarketStore[a].markets[m].winning_outcome
                                /\ MoveOutcomeShares(MarketStore'[a].markets[m], w)
                                       = MoveOutcomeShares(MarketStore[a].markets[m], w)
                                /\ \/ MoveSumShares(a, m, {w} \X Addr)'
                                          = MoveSumShares(a, m, {w} \X Addr)
                                   \/ /\ last' = [op |-> "claim_rewards", res |-> "ok"]
                                      /\ \E c \in Addr :
                                             /\ ~MoveHasClaimed(a, m, c)
                                             /\ MoveHasClaimed(a, m, c)'
                                             /\ MoveSharesOf(a, m, w, c) > 0
                                             /\ MoveSumShares(a, m, {w} \X Addr)'
                                                    = MoveSumShares(a, m, {w} \X Addr)
                                                          - MoveSharesOf(a, m, w, c)]_vars

\* A resolved market on which one of two winners has claimed: the total of
\* the winning outcome still counts both stakes, the remaining shares only one.
C38_Witness ==
    /\ last = [op |-> "claimRewards", res |-> "ok"]
    /\ markets[1].status = STATUS_RESOLVED
    /\ \E c \in Addr :
           LET w == markets[1].winningOutcome
           IN  /\ hasClaimed[1][c]
               /\ SumShares(1, {w} \X Addr) > 0
               /\ outcomeShares(markets[1], w) > SumShares(1, {w} \X Addr)

\* The same on the Move chain.
C38_MoveWitness ==
    /\ last = [op |-> "claim_rewards", res |-> "ok"]
    /\ MoveMarketExists("a3", 1)
    /\ MarketStore["a3"].markets[1].status = STATUS_RESOLVED
    /\ LET w == MarketStore["a3"].markets[1].winning_outcome
       IN  /\ MoveSumShares("a3", 1, {w} \X Addr) > 0
           /\ MoveOutcomeShares(MarketStore["a3"].markets[1], w)
                  > MoveSumShares("a3", 1, {w} \X Addr)


\* C39: every successful claimRewards pays the claimant at least the amount
\* they staked on the winning outcome, and the snapshot of a resolved market
\* is never smaller than the total of its winning outcome (on either chain).
C39_RewardCoversStake ==
    /\ [](\A m \in MarketIds :
              /\ markets[m].status = STATUS_RESOLVED
                     => markets[m].originalPoolSize
                            >= outcomeShares(markets[m], markets[m].winningOutcome)
              /\ \A a \in Creators :
                     (/\ MoveMarketExists(a, m)
                      /\ MarketStore[a].markets[m].status = STATUS_RESOLVED)
                         => MarketStore[a].markets[m].original_pool_size
                                >= MoveOutcomeShares(MarketStore[a].markets[m],
                                       MarketStore[a].markets[m].winning_outcome))
    /\ [][\A m \in MarketIds :
              /\ last' = [op |-> "claimRewards", res |-> "ok"]
                     => \A u \in Addr :
                            claimRewards(u, m) =>
                                /\ userShares[m][markets[m].winningOutcome][u] > 0
                                /\ balance'[u] - balance[u]
                                       >= userShares[m][markets[m].winningOutcome][u]
                                /\ balance[MarketContract] - balance'[MarketContract]
                                       = balance'[u] - balance[u]
              /\ last' = [op |-> "claim_rewards", res |-> "ok"]
                     => \A a \in Creators, u \in Addr :
                            (MoveMarketExists(a, m) /\ claim_rewards(u, a, m)) =>
                                LET s == MoveSharesOf(a, m,
                                             MarketStore[a].markets[m].winning_outcome, u)
                                IN  /\ s > 0
                                    /\ coin'[u] - coin[u] >= s]_vars

\* A claim has just paid a winner more than their stake on the winning
\* outcome: the market also held stake on a losing outcome.
C39_Witness ==
    /\ last = [op |-> "claimRewards", res |-> "ok"]
    /\ markets[1].status = STATUS_RESOLVED
    /\ \E u \in Addr :
           /\ hasClaimed[1][u]
           /\ paid[1] > outcomeShares(markets[1], markets[1].winningOutcome)
           /\ Cardinality(Claimants(1)) = 1

\* A claim has just paid the only participant of a market exactly their
\* stake back (several bets on the same outcome).
C39_StakeBackWitness ==
    /\ last = [op |-> "claimRewards", res |-> "ok"]
    /\ markets[1].status = STATUS_RESOLVED
    /\ markets[1].originalPoolSize
           = outcomeShares(markets[1], markets[1].winningOutcome)
    /\ paid[1] = markets[1].originalPoolSize
    /\ paid[1] > 1
    /\ Cardinality(Claimants(1)) = 1

\* The same as C39_Witness on the Move chain.
C39_MoveWitness ==
    /\ last = [op |-> "claim_rewards", res |-> "ok"]
    /\ MoveMarketExists("a3", 1)
    /\ MarketStore["a3"].markets[1].status = STATUS_RESOLVED
    /\ LET y == MarketStore["a3"].markets[1]
       IN  /\ Cardinality(MoveClaimants("a3", 1)) = 1
           /\ y.original_pool_size - y.pool
                  > MoveOutcomeShares(y, y.winning_outcome)

====
